---- MODULE Spec2Model ----
(***************************************************************************)
(* Layout-comparison engine of kixlab/canvas (evaluation/):                *)
(*   evaluation/layout/hungarian_iou.py        compute_iou,                *)
(*                                             compute_layout_iou          *)
(*   evaluation/alignment/group_alignment.py   build_alignment_groups,     *)
(*                                             match_alignment_groups,     *)
(*                                             compute_alignment_score     *)
(*   evaluation/metrics/component_similarity/block_matcher.py              *)
(*                                             hungarian_bbox_matching     *)
(*                                                                         *)
(* Numbers.  The code computes in binary floating point; the model         *)
(* computes in exact arithmetic.  Coordinates are integers counted in a    *)
(* fixed unit of the normalized canvas (1/100 under Spec and SpecIoU,      *)
(* 1/1000 under SpecScenarioB), a ratio is a pair <<num, den>> with        *)
(* den > 0, and a value returned through round(v, 4) is an integer         *)
(* counted in units of 1/10000.  Python lists and numpy arrays are 0-based;*)
(* the sequences of the model are 1-based, so index k of the model is      *)
(* index k-1 of the code, and "no index" (-1 in the solver) is 0.          *)
(***************************************************************************)
EXTENDS Integers, Sequences, FiniteSets, TLC

VARIABLES gt_boxes, gen_boxes, tol, gt_doc, gen_doc, files, calls, pc, call, ret,
          dicts, _METRIC_SOURCES, history, results_dir, runners

vars == <<gt_boxes, gen_boxes, tol, gt_doc, gen_doc, files, calls, pc, call, ret,
          dicts, _METRIC_SOURCES, history, results_dir, runners>>

\* the state of the harness around the comparison engine: the dict objects
\* of the metric registry (evaluation/metrics/__init__.py) and the results
\* directory and the processes of the experiment runners (src/experiments/)
harness == <<dicts, _METRIC_SOURCES, history, results_dir, runners>>

\* {}
EmptyDict == [key \in {} |-> key]

\* a results directory with no lock file and no result directory in it
EmptyResultsDir == [locks |-> {}, results |-> {}]

\* no metric registered, no experiment process running
HarnessIdle ==
    /\ dicts = <<EmptyDict>>
    /\ _METRIC_SOURCES = EmptyDict
    /\ history = <<>>
    /\ results_dir = EmptyResultsDir
    /\ runners = <<>>

\* what a call receives and never assigns: the two rectangle lists, the
\* tolerance and the two loaded documents
inputs == <<gt_boxes, gen_boxes, tol, gt_doc, gen_doc>>

-----------------------------------------------------------------------------
(* Bounds of the model.                                                    *)

\* longest rectangle list drawn for either side
MaxBoxes == 3

\* largest coordinate and largest side of the rectangles drawn under SpecIoU
MaxCoord == 2

-----------------------------------------------------------------------------
(* Arithmetic helpers.                                                     *)

Max(a, b) == IF a >= b THEN a ELSE b

Min(a, b) == IF a <= b THEN a ELSE b

RECURSIVE Gcd(_, _)
Gcd(a, b) == IF b = 0 THEN a ELSE Gcd(b, a % b)

Lcm(a, b) == (a \div Gcd(a, b)) * b

\* a ratio in lowest terms
Ratio(n, d) == LET g == Gcd(n, d) IN IF n = 0 THEN <<0, 1>> ELSE <<n \div g, d \div g>>

\* s[1] + ... + s[n]
RECURSIVE SumTo(_, _)
SumTo(s, n) == IF n = 0 THEN 0 ELSE s[n] + SumTo(s, n - 1)

SumSeq(s) == SumTo(s, Len(s))

\* the sequence <<F(1), ..., F(n)>>
SeqOf(n, F(_)) ==
    LET RECURSIVE Build(_)
        Build(k) == IF k = 0 THEN <<>> ELSE Append(Build(k - 1), F(k))
    IN  Build(n)

\* F(value), the value being computed before F is entered, as the statements
\* of the program compute it before the statements that use it
Eager(value, F(_)) == CHOOSE r \in {F(x) : x \in {value}} : TRUE

\* Python round(n/d, 4) for n >= 0, d > 0, counted in 1/10000: the nearest
\* multiple of 1/10000, a tie going to the even one.  The four decimal digits
\* are drawn one at a time so that no product exceeds 10 * d.
RECURSIVE Digits(_, _, _)
Digits(r, d, k) ==
    IF k = 0 THEN <<0, r>>
    ELSE LET rest == Digits((r * 10) % d, d, k - 1)
             pow  == IF k = 4 THEN 1000 ELSE IF k = 3 THEN 100 ELSE IF k = 2 THEN 10 ELSE 1
         IN  <<((r * 10) \div d) * pow + rest[1], rest[2]>>

Round4(n, d) ==
    LET frac  == Digits(n % d, d, 4)
        whole == (n \div d) * 10000 + frac[1]
        rem   == frac[2]
    IN  IF 2 * rem > d THEN whole + 1
        ELSE IF 2 * rem < d THEN whole
        ELSE IF whole % 2 = 0 THEN whole ELSE whole + 1

-----------------------------------------------------------------------------
(* Rectangles and IoU.                                                     *)

Box(x, y, w, h) == [x |-> x, y |-> y, width |-> w, height |-> h]

\* compute_iou with the union computed without subtracting the intersection
compute_iou_NoSubtract(boxA, boxB) ==
    LET xA == Max(boxA.x, boxB.x)
        yA == Max(boxA.y, boxB.y)
        xB == Min(boxA.x + boxA.width, boxB.x + boxB.width)
        yB == Min(boxA.y + boxA.height, boxB.y + boxB.height)
        interArea == Max(0, xB - xA) * Max(0, yB - yA)
        unionArea == boxA.width * boxA.height + boxB.width * boxB.height
    IN  IF unionArea > 0 THEN Ratio(interArea, unionArea) ELSE <<0, 1>>

\* compute_iou: the ratio interArea / unionArea, 0.0 when unionArea <= 0
compute_iou(boxA, boxB) ==
    LET xA == Max(boxA.x, boxB.x)
        yA == Max(boxA.y, boxB.y)
        xB == Min(boxA.x + boxA.width, boxB.x + boxB.width)
        yB == Min(boxA.y + boxA.height, boxB.y + boxB.height)
        interArea == Max(0, xB - xA) * Max(0, yB - yA)
        boxAArea == boxA.width * boxA.height
        boxBArea == boxB.width * boxB.height
        unionArea == boxAArea + boxBArea - interArea
    IN  IF unionArea > 0 THEN Ratio(interArea, unionArea) ELSE <<0, 1>>

\* compute_iou of block_matcher.py: the same computation, written a second time
block_compute_iou(box1, box2) ==
    LET xA == Max(box1.x, box2.x)
        yA == Max(box1.y, box2.y)
        xB == Min(box1.x + box1.width, box2.x + box2.width)
        yB == Min(box1.y + box1.height, box2.y + box2.height)
        inter_area == Max(0, xB - xA) * Max(0, yB - yA)
        box1_area == box1.width * box1.height
        box2_area == box2.width * box2.height
        union_area == box1_area + box2_area - inter_area
    IN  IF union_area > 0 THEN Ratio(inter_area, union_area) ELSE <<0, 1>>

\* iou_matrix[i, j] = iou(gt[i], gen[j])
IouMatrix(gt, gen, iou(_, _)) ==
    SeqOf(Len(gt), LAMBDA i : SeqOf(Len(gen), LAMBDA j : iou(gt[i], gen[j])))

\* The common denominator of the entries of an IoU matrix: every entry, and so
\* every cost 1 - iou, is a whole number of 1/CostScale.
RECURSIVE LcmOver(_)
LcmOver(S) == IF S = {} THEN 1
              ELSE LET d == CHOOSE e \in S : TRUE IN Lcm(d, LcmOver(S \ {d}))

CostScale(iou_matrix) ==
    LcmOver({iou_matrix[i][j][2] : i \in DOMAIN iou_matrix,
                                   j \in 1..(IF Len(iou_matrix) = 0 THEN 0 ELSE Len(iou_matrix[1]))})

\* an IoU counted in 1/scale
Scaled(iou, scale) == iou[1] * (scale \div iou[2])

\* cost_matrix[i, j] = iou (the subtraction from 1 forgotten)
CostMatrix_NoComplement(iou_matrix, scale) ==
    SeqOf(Len(iou_matrix), LAMBDA i :
        SeqOf(Len(iou_matrix[i]), LAMBDA j : Scaled(iou_matrix[i][j], scale)))

\* cost_matrix[i, j] = 1 - iou, counted in 1/scale
CostMatrix(iou_matrix, scale) ==
    SeqOf(Len(iou_matrix), LAMBDA i :
        SeqOf(Len(iou_matrix[i]), LAMBDA j : scale - Scaled(iou_matrix[i][j], scale)))

-----------------------------------------------------------------------------
(* scipy.optimize.linear_sum_assignment, the solver the three matchers     *)
(* call.  It is the shortest-augmenting-path algorithm of the library's    *)
(* rectangular_lsap (solve and augmenting_path), followed step by step,    *)
(* ties included: the order in which the remaining columns are scanned and *)
(* the preference for an unassigned column among equal costs decide which  *)
(* of several optimal assignments is returned.  INFINITY is written as a   *)
(* negative number; every finite value the solver compares is >= 0.        *)

INFINITY == 0 - 1

IsLess(a, b) == IF a = INFINITY THEN FALSE ELSE IF b = INFINITY THEN TRUE ELSE a < b

Range(s) == {s[k] : k \in DOMAIN s}

\* the scan of the remaining columns for the one of lowest path cost:
\* <<lowest, index>> after positions it..Len(remaining)
RECURSIVE ScanRemaining(_, _, _, _, _, _)
ScanRemaining(remaining, spc, row4col, it, lowest, index) ==
    IF it > Len(remaining) THEN <<lowest, index>>
    ELSE LET j == remaining[it]
             take == \/ IsLess(spc[j], lowest)
                     \/ (spc[j] = lowest /\ row4col[j] = 0)
         IN  IF take
             THEN ScanRemaining(remaining, spc, row4col, it + 1, spc[j], it)
             ELSE ScanRemaining(remaining, spc, row4col, it + 1, lowest, index)

\* remaining[index] = remaining[--num_remaining]
DropRemaining(remaining, index) ==
    LET last == Len(remaining)
    IN  SeqOf(last - 1, LAMBDA k : IF k = index THEN remaining[last] ELSE remaining[k])

\* one pass of the while loop of augmenting_path, after the scan of the
\* remaining columns has found the column remaining[found[2]] of lowest path
\* cost found[1]
LoopStep(row4col, st, spc, path, found, j) ==
    [i         |-> IF row4col[j] = 0 THEN st.i ELSE row4col[j],
     minVal    |-> found[1],
     SR        |-> st.SR \cup {st.i},
     SC        |-> st.SC \cup {j},
     spc       |-> spc,
     path      |-> path,
     remaining |-> DropRemaining(st.remaining, found[2]),
     sink      |-> IF row4col[j] = 0 THEN j ELSE 0]

LoopPick(row4col, st, spc, path, found) ==
    LoopStep(row4col, st, spc, path, found, st.remaining[found[2]])

\* the scan of the remaining columns over the relaxed path costs spc
LoopScan(row4col, st, spc, path) ==
    Eager(ScanRemaining(st.remaining, spc, row4col, 1, INFINITY, 0),
          LAMBDA found : LoopPick(row4col, st, spc, path, found))

\* the relaxation of the path costs through row st.i, then the scan
LoopRelax(cost, u, v, row4col, st) ==
    LET i   == st.i
        rem == Range(st.remaining)
        r(j) == st.minVal + cost[i][j] - u[i] - v[j]
        better(j) == j \in rem /\ IsLess(r(j), st.spc[j])
    IN  Eager(SeqOf(Len(st.spc), LAMBDA j : IF better(j) THEN r(j) ELSE st.spc[j]),
              LAMBDA spc :
                  LoopScan(row4col, st, spc,
                      SeqOf(Len(st.path), LAMBDA j : IF better(j) THEN i ELSE st.path[j])))

\* the while loop of augmenting_path, one pass per call
RECURSIVE AugmentingLoop(_, _, _, _, _)
AugmentingLoop(cost, u, v, row4col, st) ==
    IF st.sink # 0 THEN st
    ELSE Eager(LoopRelax(cost, u, v, row4col, st),
               LAMBDA next : AugmentingLoop(cost, u, v, row4col, next))

\* augmenting_path from row curRow; the columns are scanned from the last to
\* the first (remaining[it] = nc - it - 1)
augmenting_path(nc, cost, u, v, path, row4col, curRow) ==
    AugmentingLoop(cost, u, v, row4col,
        [i         |-> curRow,
         minVal    |-> 0,
         SR        |-> {},
         SC        |-> {},
         spc       |-> SeqOf(nc, LAMBDA j : INFINITY),
         path      |-> path,
         remaining |-> SeqOf(nc, LAMBDA it : nc - it + 1),
         sink      |-> 0])

\* "augment previous solution": walk the path back from the sink to curRow
RECURSIVE AugmentSolution(_, _, _, _, _)
AugmentSolution(path, col4row, row4col, curRow, j) ==
    LET i    == path[j]
        r4c  == SeqOf(Len(row4col), LAMBDA k : IF k = j THEN i ELSE row4col[k])
        next == col4row[i]
        c4r  == SeqOf(Len(col4row), LAMBDA k : IF k = i THEN j ELSE col4row[k])
    IN  IF i = curRow THEN [col4row |-> c4r, row4col |-> r4c]
        ELSE AugmentSolution(path, c4r, r4c, curRow, next)

\* the state of solve after the augmentation along the path found
Augmented(u, v, path, aug) ==
    [u |-> u, v |-> v, path |-> path,
     col4row |-> aug.col4row, row4col |-> aug.row4col]

\* "update dual variables" and "augment previous solution", given the result
\* a of augmenting_path from curRow
UpdateDuals(nr, nc, curRow, s, a) ==
    Augmented(
        SeqOf(nr, LAMBDA i :
            IF i = curRow THEN s.u[i] + a.minVal
            ELSE IF i \in a.SR THEN s.u[i] + a.minVal - a.spc[s.col4row[i]]
            ELSE s.u[i]),
        SeqOf(nc, LAMBDA j :
            IF j \in a.SC THEN s.v[j] - (a.minVal - a.spc[j]) ELSE s.v[j]),
        a.path,
        AugmentSolution(a.path, s.col4row, s.row4col, curRow, a.sink))

\* the for loop of solve over curRow
RECURSIVE SolveRows(_, _, _, _, _)
SolveRows(nr, nc, cost, curRow, s) ==
    IF curRow > nr THEN s
    ELSE Eager(augmenting_path(nc, cost, s.u, s.v, s.path, s.row4col, curRow),
               LAMBDA a :
                   Eager(UpdateDuals(nr, nc, curRow, s, a),
                         LAMBDA next : SolveRows(nr, nc, cost, curRow + 1, next)))

\* solve on a matrix with nr <= nc: col4row
SolveWide(nr, nc, cost) ==
    SolveRows(nr, nc, cost, 1,
        [u |-> SeqOf(nr, LAMBDA i : 0), v |-> SeqOf(nc, LAMBDA j : 0),
         path |-> SeqOf(nc, LAMBDA j : 0),
         col4row |-> SeqOf(nr, LAMBDA i : 0), row4col |-> SeqOf(nc, LAMBDA j : 0)]).col4row

Transpose(nr, nc, cost) == SeqOf(nc, LAMBDA j : SeqOf(nr, LAMBDA i : cost[i][j]))

\* a solver that gives every row its cheapest column, whether taken or not
linear_sum_assignment_Greedy(cost) ==
    LET nr == Len(cost)
        nc == IF nr = 0 THEN 0 ELSE Len(cost[1])
        best(i) == CHOOSE j \in 1..nc : \A k \in 1..nc : cost[i][j] <= cost[i][k]
    IN  IF nr = 0 \/ nc = 0 THEN [row_ind |-> <<>>, col_ind |-> <<>>]
        ELSE [row_ind |-> SeqOf(nr, LAMBDA k : k), col_ind |-> SeqOf(nr, LAMBDA k : best(k))]

\* row_ind and col_ind from col4row, sorted by row; for a transposed problem
\* col4row holds the row of each column and the pairs are sorted by
\* argsort(col4row)
AssignmentOf(col4row, transposed) ==
    LET n    == Len(col4row)
        rows == Range(col4row)
        \* the k-th smallest assigned row
        nth(k) == CHOOSE i \in rows : Cardinality({h \in rows : h < i}) = k - 1
        colOf(i) == CHOOSE k \in 1..n : col4row[k] = i
    IN  IF transposed
        THEN [row_ind |-> SeqOf(n, LAMBDA k : nth(k)),
              col_ind |-> SeqOf(n, LAMBDA k : colOf(nth(k)))]
        ELSE [row_ind |-> SeqOf(n, LAMBDA k : k), col_ind |-> col4row]

\* linear_sum_assignment(cost): row_ind and col_ind, sorted by row.  A matrix
\* with more rows than columns is solved transposed.
linear_sum_assignment(cost) ==
    LET nr == Len(cost)
        nc == IF nr = 0 THEN 0 ELSE Len(cost[1])
    IN  IF nr = 0 \/ nc = 0 THEN [row_ind |-> <<>>, col_ind |-> <<>>]
        ELSE Eager(SolveWide(Min(nr, nc), Max(nr, nc),
                             IF nc < nr THEN Transpose(nr, nc, cost) ELSE cost),
                   LAMBDA col4row : AssignmentOf(col4row, nc < nr))

-----------------------------------------------------------------------------
(* Layout matching: compute_layout_iou.                                    *)

\* zip(row_ind, col_ind) with the IoU of each pair: every assigned pair is
\* kept, whatever its IoU
LayoutMatchedPairs(iou_matrix, assignment) ==
    SeqOf(Len(assignment.row_ind), LAMBDA k :
        [gt  |-> assignment.row_ind[k],
         gen |-> assignment.col_ind[k],
         iou |-> iou_matrix[assignment.row_ind[k]][assignment.col_ind[k]]])

\* precision = len(matched_pairs) / n_gen with no guard on n_gen = 0 answers
\* 0.0 there
LayoutPrecision_NoConvention(num_matched, n_gen) ==
    IF n_gen # 0 THEN <<num_matched, n_gen>> ELSE <<0, 1>>

\* precision = len(matched_pairs) / n_gen if n_gen else 1.0
LayoutPrecision(num_matched, n_gen) ==
    IF n_gen # 0 THEN <<num_matched, n_gen>> ELSE <<1, 1>>

\* recall = len(matched_pairs) / n_gt if n_gt else 1.0
LayoutRecall(num_matched, n_gt) ==
    IF n_gt # 0 THEN <<num_matched, n_gt>> ELSE <<1, 1>>

\* the assignment returned by linear_sum_assignment(cost_matrix), where
\* cost_matrix[i, j] = 1 - iou_matrix[i, j]
SolveIou(iou_matrix) ==
    Eager(CostMatrix(iou_matrix, CostScale(iou_matrix)),
          LAMBDA cost_matrix : linear_sum_assignment(cost_matrix))

\* the metrics returned, from the matched pairs; scale is the common
\* denominator of their IoUs
LayoutMetrics(n_gt, n_gen, scale, matched_pairs) ==
    LET num_matched   == Len(matched_pairs)
        iou_sum       == SumSeq(SeqOf(num_matched, LAMBDA k : Scaled(matched_pairs[k].iou, scale)))
        matched_gt_idx  == {matched_pairs[k].gt : k \in 1..num_matched}
        matched_gen_idx == {matched_pairs[k].gen : k \in 1..num_matched}
        precision == LayoutPrecision(num_matched, n_gen)
        recall    == LayoutRecall(num_matched, n_gt)
    IN  [num_gt    |-> n_gt,
         num_gen   |-> n_gen,
         num_matched |-> num_matched,
         mean_iou  |-> IF num_matched > 0 THEN Round4(iou_sum, scale * num_matched) ELSE 0,
         precision |-> Round4(precision[1], precision[2]),
         recall    |-> Round4(recall[1], recall[2]),
         num_unmatched_gt  |-> Cardinality((1..n_gt) \ matched_gt_idx),
         num_unmatched_gen |-> Cardinality((1..n_gen) \ matched_gen_idx),
         matched_pairs |-> matched_pairs]

\* the Hungarian matching on the IoU matrix, when both lists are non-empty
LayoutOfMatrix(n_gt, n_gen, iou_matrix) ==
    Eager(IF n_gt > 0 /\ n_gen > 0
          THEN SolveIou(iou_matrix)
          ELSE [row_ind |-> <<>>, col_ind |-> <<>>],
          LAMBDA assignment :
              LayoutMetrics(n_gt, n_gen, CostScale(iou_matrix),
                            LayoutMatchedPairs(iou_matrix, assignment)))

compute_layout_iou(gt, gen) ==
    Eager(IouMatrix(gt, gen, compute_iou),
          LAMBDA iou_matrix : LayoutOfMatrix(Len(gt), Len(gen), iou_matrix))

-----------------------------------------------------------------------------
(* Block matching: hungarian_bbox_matching.                                *)

\* the default of the parameter iou_threshold, 0.5, as a ratio
DefaultIouThreshold == <<1, 2>>

\* iou >= iou_threshold
AtLeast(iou, th) == iou[1] * th[2] >= th[1] * iou[2]

\* the k-th pair is appended when keep(k) holds
FilterPairs(pairs, keep(_), n) ==
    LET RECURSIVE Upto(_)
        Upto(k) == IF k = 0 THEN <<>>
                   ELSE IF keep(k) THEN Append(Upto(k - 1), pairs[k])
                   ELSE Upto(k - 1)
    IN  Upto(n)

\* zip(row_ind, col_ind): the pairs (r, c), reported without their IoU
BlockPairs(assignment) ==
    SeqOf(Len(assignment.row_ind), LAMBDA k :
        [gt |-> assignment.row_ind[k], gen |-> assignment.col_ind[k]])

\* the pairs with iou_matrix[r, c] >= iou_threshold
BlockMatches(iou_matrix, pairs, iou_threshold) ==
    LET keep(k) == AtLeast(iou_matrix[pairs[k].gt][pairs[k].gen], iou_threshold)
    IN  FilterPairs(pairs, keep, Len(pairs))

BlockOfMatrix(iou_matrix, iou_threshold) ==
    Eager(SolveIou(iou_matrix),
          LAMBDA assignment :
              BlockMatches(iou_matrix, BlockPairs(assignment), iou_threshold))

hungarian_bbox_matching(gt, gen, iou_threshold) ==
    IF Len(gt) = 0 \/ Len(gen) = 0 THEN <<>>
    ELSE Eager(IouMatrix(gt, gen, block_compute_iou),
               LAMBDA iou_matrix : BlockOfMatrix(iou_matrix, iou_threshold))

-----------------------------------------------------------------------------
(* Alignment groups: build_alignment_groups, match_alignment_groups and    *)
(* compute_alignment_score.                                                *)

\* TOLERANCE = 0.02, in units of 1/100
TOLERANCE == 2

MIN_ELEMENTS_PER_GROUP == 2

\* the six edge-kinds, in the order build_alignment_groups fills the buckets
AlignmentTypes == <<"x_left", "x_center", "x_right", "y_top", "y_center", "y_bottom">>

\* Python round(n / d) for d > 0: the nearest integer, a tie going to the even one
RoundHalfEven(n, d) ==
    LET q == n \div d
        r == n % d
    IN  IF 2 * r > d THEN q + 1
        ELSE IF 2 * r < d THEN q
        ELSE IF q % 2 = 0 THEN q ELSE q + 1

\* _round_coord truncating coord / tol instead of rounding it
_round_coord_Truncate(coord2, t) == coord2 \div (2 * t)

\* _round_coord(coord, tol) = int(round(coord / tol)).  A center lies on a half
\* unit, so the coordinate is passed doubled: coord2 = 2 * coord.
_round_coord(coord2, t) == RoundHalfEven(coord2, 2 * t)

\* twice the coordinate of box b that edge-kind number k quantizes
EdgeCoord2(b, k) ==
    IF k = 1 THEN 2 * b.x
    ELSE IF k = 2 THEN 2 * b.x + b.width
    ELSE IF k = 3 THEN 2 * (b.x + b.width)
    ELSE IF k = 4 THEN 2 * b.y
    ELSE IF k = 5 THEN 2 * b.y + b.height
    ELSE 2 * (b.y + b.height)

\* the bucket key (edge-kind number, bucket) of box b for edge-kind k
BucketKey(b, k, t) == <<k, _round_coord(EdgeCoord2(b, k), t)>>

MinOf(S) == CHOOSE m \in S : \A e \in S : m <= e

MaxOf(S) == CHOOSE m \in S : \A e \in S : m >= e

\* _union_bbox taking the x of the first member instead of the minimum
_union_bbox_FirstX(boxes) ==
    LET min_x == boxes[1].x
        min_y == MinOf({boxes[k].y : k \in DOMAIN boxes})
        max_x == MaxOf({boxes[k].x + boxes[k].width : k \in DOMAIN boxes})
        max_y == MaxOf({boxes[k].y + boxes[k].height : k \in DOMAIN boxes})
    IN  <<min_x, min_y, max_x - min_x, max_y - min_y>>

\* _union_bbox(boxes) = (x, y, w, h) of the union bounding box
_union_bbox(boxes) ==
    LET min_x == MinOf({boxes[k].x : k \in DOMAIN boxes})
        min_y == MinOf({boxes[k].y : k \in DOMAIN boxes})
        max_x == MaxOf({boxes[k].x + boxes[k].width : k \in DOMAIN boxes})
        max_y == MaxOf({boxes[k].y + boxes[k].height : k \in DOMAIN boxes})
    IN  <<min_x, min_y, max_x - min_x, max_y - min_y>>

\* The buckets dictionary keeps its keys in the order of their first insertion:
\* box by box, and for each box the six edge-kinds in order.  Position p of that
\* insertion sequence is box (p-1) \div 6 + 1 and edge-kind ((p-1) % 6) + 1.
\* The list of groups follows that order: one group for every key that holds at
\* least MIN_ELEMENTS_PER_GROUP boxes.  A group's members are recorded as the
\* indices of the boxes in the input list, in list order (the code holds
\* references to the box dictionaries themselves).
GroupsOfKeys(boxes, keys) ==
    LET n == Len(boxes)
        RECURSIVE Members(_, _, _)
        Members(k, key, i) ==
            IF i = 0 THEN <<>>
            ELSE IF keys[i][k] = key THEN Append(Members(k, key, i - 1), i)
            ELSE Members(k, key, i - 1)
        WithBbox(k, members, bbox) ==
            [alignment_type |-> AlignmentTypes[k],
             x |-> bbox[1], y |-> bbox[2], width |-> bbox[3], height |-> bbox[4],
             members |-> members]
        Group(k, members) ==
            WithBbox(k, members,
                     _union_bbox(SeqOf(Len(members), LAMBDA m : boxes[members[m]])))
        RECURSIVE GroupsUpTo(_)
        GroupsUpTo(p) ==
            IF p = 0 THEN <<>>
            ELSE LET b == (p - 1) \div 6 + 1
                     k == ((p - 1) % 6) + 1
                     first == \A c \in 1..(b - 1) : keys[c][k] # keys[b][k]
                     members == Members(k, keys[b][k], n)
                 IN  IF first /\ Len(members) >= MIN_ELEMENTS_PER_GROUP
                     THEN Append(GroupsUpTo(p - 1), Group(k, members))
                     ELSE GroupsUpTo(p - 1)
    IN  GroupsUpTo(6 * n)

build_alignment_groups(boxes, t) ==
    Eager(SeqOf(Len(boxes), LAMBDA b : SeqOf(6, LAMBDA k : BucketKey(boxes[b], k, t))),
          LAMBDA keys : GroupsOfKeys(boxes, keys))

\* _bbox_iou(a, b) = compute_iou(a, b) on the groups' union boxes
_bbox_iou(a, b) == compute_iou(a, b)

\* zip(row_ind, col_ind) of the assignment on the groups' IoU matrix
GroupPairs(iou_mat) ==
    Eager(SolveIou(iou_mat),
          LAMBDA assignment : LayoutMatchedPairs(iou_mat, assignment))

\* the pairs (i, j, iou) with iou > 0.0
PositivePairs(pairs) ==
    LET keep(k) == pairs[k].iou[1] > 0
    IN  FilterPairs(pairs, keep, Len(pairs))

\* match_alignment_groups keeping the assigned pairs of IoU zero as well
match_alignment_groups_NoFilter(gt_groups, gen_groups) ==
    IF Len(gt_groups) = 0 \/ Len(gen_groups) = 0 THEN <<>>
    ELSE Eager(IouMatrix(gt_groups, gen_groups, _bbox_iou),
               LAMBDA iou_mat : GroupPairs(iou_mat))

\* match_alignment_groups: the assigned pairs (i, j, iou) with iou > 0.0
match_alignment_groups(gt_groups, gen_groups) ==
    IF Len(gt_groups) = 0 \/ Len(gen_groups) = 0 THEN <<>>
    ELSE Eager(IouMatrix(gt_groups, gen_groups, _bbox_iou),
               LAMBDA iou_mat :
                   Eager(GroupPairs(iou_mat), LAMBDA pairs : PositivePairs(pairs)))

\* f1 without the factor 2
F1_NoDouble(precision, recall) ==
    LET sum == precision[1] * recall[2] + recall[1] * precision[2]
    IN  IF sum > 0 THEN Ratio(precision[1] * recall[1], sum) ELSE <<0, 1>>

\* f1 = 2 * precision * recall / (precision + recall) if that sum is > 0, else 0.0
F1(precision, recall) ==
    LET sum == precision[1] * recall[2] + recall[1] * precision[2]
    IN  IF sum > 0 THEN Ratio(2 * precision[1] * recall[1], sum) ELSE <<0, 1>>

\* precision, recall and f1 from the matched pairs of groups
AlignmentMetrics(gt_groups, gen_groups, matched_pairs) ==
    LET correct == Cardinality({k \in 1..Len(matched_pairs) :
                       gt_groups[matched_pairs[k].gt].alignment_type
                         = gen_groups[matched_pairs[k].gen].alignment_type})
        precision == IF Len(gen_groups) # 0 THEN <<correct, Len(gen_groups)>> ELSE <<1, 1>>
        recall    == IF Len(gt_groups) # 0 THEN <<correct, Len(gt_groups)>> ELSE <<1, 1>>
        f1        == F1(precision, recall)
    IN  [precision |-> Round4(precision[1], precision[2]),
         recall    |-> Round4(recall[1], recall[2]),
         f1        |-> Round4(f1[1], f1[2]),
         num_gt_groups  |-> Len(gt_groups),
         num_gen_groups |-> Len(gen_groups),
         num_correct_aligned |-> correct,
         gt_groups  |-> gt_groups,
         gen_groups |-> gen_groups,
         matched_pairs |-> matched_pairs]

AlignmentOfGroups(gt_groups, gen_groups) ==
    Eager(match_alignment_groups(gt_groups, gen_groups),
          LAMBDA matched_pairs :
              AlignmentMetrics(gt_groups, gen_groups, matched_pairs))

\* compute_alignment_score; has_gen is FALSE when gen_json_path is None
compute_alignment_score(gt, gen, has_gen, t) ==
    Eager(build_alignment_groups(gt, t),
          LAMBDA gt_groups :
              Eager(IF has_gen THEN build_alignment_groups(gen, t) ELSE <<>>,
                    LAMBDA gen_groups : AlignmentOfGroups(gt_groups, gen_groups)))


-----------------------------------------------------------------------------
(* The state machine.  A comparison call is a pure function of its inputs: *)
(* the state is the pair of rectangle lists handed to it (the output of    *)
(* load_boxes_from_json for the two documents), the tolerance, the call    *)
(* made and the value it returned.                                         *)

\* Rectangles of the layouts drawn under Spec, in units of 1/100: two squares
\* that overlap (IoU 1/3), the left half of the first (IoU 1/2 with it, and no
\* overlap with the second, which it only touches) and an element of zero width.
SampleBoxes ==
    { Box(0, 0, 2, 2), Box(1, 0, 2, 2), Box(0, 0, 1, 2), Box(2, 0, 0, 1) }

\* the lists of at most n elements of S
ListsUpTo(S, n) == UNION { [1..k -> S] : k \in 0..n }

NoResult == [none |-> TRUE]

\* a call that is given rectangle lists loads no document
NoDocument == [document |-> <<>>, nodes |-> <<>>]

\* nothing has been written below any output directory: no directory made,
\* no report file written
NoFiles == [dirs |-> {}, reports |-> <<>>]

\* no concurrent call is in progress
NoCalls == <<>>

Init ==
    /\ gt_boxes \in ListsUpTo(SampleBoxes, MaxBoxes)
    /\ gen_boxes \in ListsUpTo(SampleBoxes, MaxBoxes)
    /\ tol = TOLERANCE
    /\ gt_doc = NoDocument
    /\ gen_doc = NoDocument
    /\ files = NoFiles
    /\ HarnessIdle
    /\ calls = NoCalls
    /\ pc = "input"
    /\ call = "none"
    /\ ret = NoResult

ComputeLayoutIou ==
    /\ pc = "input"
    /\ pc' = "done"
    /\ call' = "compute_layout_iou"
    /\ ret' = compute_layout_iou(gt_boxes, gen_boxes)
    /\ UNCHANGED <<inputs, files, calls, harness>>

HungarianBboxMatching ==
    /\ pc = "input"
    /\ pc' = "done"
    /\ call' = "hungarian_bbox_matching"
    /\ ret' = [matches |-> hungarian_bbox_matching(gt_boxes, gen_boxes,
                                                    DefaultIouThreshold)]
    /\ UNCHANGED <<inputs, files, calls, harness>>

\* has_gen is FALSE when the caller passes no generated document
ComputeAlignmentScore ==
    /\ pc = "input"
    /\ pc' = "done"
    /\ \E has_gen \in BOOLEAN :
          /\ call' = IF has_gen THEN "compute_alignment_score"
                               ELSE "compute_alignment_score_gt_only"
          /\ ret' = compute_alignment_score(gt_boxes, gen_boxes, has_gen, tol)
    /\ UNCHANGED <<inputs, files, calls, harness>>

Next ==
    \/ ComputeLayoutIou
    \/ HungarianBboxMatching
    \/ ComputeAlignmentScore

Spec == Init /\ [][Next]_vars


-----------------------------------------------------------------------------
(* SpecIoU: compute_iou on every pair of rectangles of a small grid.       *)

GridBoxes ==
    { Box(x, y, w, h) : x \in 0..MaxCoord, y \in 0..MaxCoord,
                        w \in 0..MaxCoord, h \in 0..MaxCoord }

InitIoU ==
    /\ \E a \in GridBoxes : gt_boxes = <<a>>
    /\ \E b \in GridBoxes : gen_boxes = <<b>>
    /\ tol = TOLERANCE
    /\ gt_doc = NoDocument
    /\ gen_doc = NoDocument
    /\ files = NoFiles
    /\ HarnessIdle
    /\ calls = NoCalls
    /\ pc = "input"
    /\ call = "none"
    /\ ret = NoResult

ComputeIou ==
    /\ pc = "input"
    /\ pc' = "done"
    /\ call' = "compute_iou"
    /\ ret' = [iou       |-> compute_iou(gt_boxes[1], gen_boxes[1]),
               block_iou |-> block_compute_iou(gt_boxes[1], gen_boxes[1])]
    /\ UNCHANGED <<inputs, files, calls, harness>>

NextIoU == ComputeIou

SpecIoU == InitIoU /\ [][NextIoU]_vars

-----------------------------------------------------------------------------
(* SpecScenarioB: the alignment comparison of a row of equal squares with  *)
(* the same row shifted to the right, in units of 1/1000.                  *)

\* largest shift drawn, in units of 1/1000
MaxShift == 2

\* TOLERANCE (0.02) in units of 1/1000
FineTolerance == TOLERANCE * 10

ScenarioBoxes == { Box(x, 0, 100, 100) : x \in {0, 300, 600} }

Shifted(boxes, dx) ==
    SeqOf(Len(boxes), LAMBDA k :
        Box(boxes[k].x + dx, boxes[k].y, boxes[k].width, boxes[k].height))

InitScenarioB ==
    /\ gt_boxes \in ListsUpTo(ScenarioBoxes, MaxBoxes)
    /\ \E dx \in 0..MaxShift : gen_boxes = Shifted(gt_boxes, dx)
    /\ tol = FineTolerance
    /\ gt_doc = NoDocument
    /\ gen_doc = NoDocument
    /\ files = NoFiles
    /\ HarnessIdle
    /\ calls = NoCalls
    /\ pc = "input"
    /\ call = "none"
    /\ ret = NoResult

NextScenarioB == ComputeAlignmentScore

SpecScenarioB == InitScenarioB /\ [][NextScenarioB]_vars


-----------------------------------------------------------------------------
(* Properties.                                                             *)

Returned(name) == pc = "done" /\ call = name

AlignmentReturned ==
    pc = "done" /\ call \in {"compute_alignment_score", "compute_alignment_score_gt_only"}

\* the pairs a finished call reports as matched
ReportedPairs ==
    IF call = "hungarian_bbox_matching" THEN ret.matches ELSE ret.matched_pairs

\* the lengths of the two lists the finished call matched: the rectangle lists,
\* or the lists of alignment groups
MatchedGtLen == IF AlignmentReturned THEN Len(ret.gt_groups) ELSE Len(gt_boxes)

MatchedGenLen == IF AlignmentReturned THEN Len(ret.gen_groups) ELSE Len(gen_boxes)

\* C1: the pairs reported by compute_layout_iou, hungarian_bbox_matching and
\* match_alignment_groups form a partial injective mapping: every index lies in
\* its list, no GT index and no GEN index appears in two pairs, and so there
\* are at most min(|GT|, |GEN|) pairs.
C1_MatchingInjective ==
    pc = "done" =>
        LET pairs == ReportedPairs
        IN  /\ \A k \in 1..Len(pairs) :
                  /\ pairs[k].gt \in 1..MatchedGtLen
                  /\ pairs[k].gen \in 1..MatchedGenLen
            /\ \A a, b \in 1..Len(pairs) :
                  a # b => pairs[a].gt # pairs[b].gt /\ pairs[a].gen # pairs[b].gen
            /\ Len(pairs) <= Min(MatchedGtLen, MatchedGenLen)

\* C1 witness: layout matching of lists of different lengths has returned two or more pairs
C1_Witness ==
    Returned("compute_layout_iou") /\ Len(ret.matched_pairs) >= 2
      /\ Len(gt_boxes) # Len(gen_boxes)


\* C2 (as claimed): a pair is reported as matched only if its rectangles
\* overlap: IoU > 0 in compute_layout_iou and match_alignment_groups, IoU >= the
\* threshold in hungarian_bbox_matching.
C2_NoZeroOverlapMatched ==
    pc = "done" =>
        \A k \in 1..Len(ReportedPairs) :
            IF call = "hungarian_bbox_matching"
            THEN AtLeast(block_compute_iou(gt_boxes[ReportedPairs[k].gt],
                                           gen_boxes[ReportedPairs[k].gen]),
                         DefaultIouThreshold)
            ELSE ReportedPairs[k].iou[1] > 0

\* the optimum by exhaustive enumeration: the least total cost of assigning the
\* rows from..nr of a cost matrix with nr <= nc to distinct columns not in used
RECURSIVE LeastCostFrom(_, _, _, _, _)
LeastCostFrom(cost, nr, nc, from, used) ==
    IF from > nr THEN 0
    ELSE MinOf({ cost[from][j] + LeastCostFrom(cost, nr, nc, from + 1, used \cup {j}) :
                 j \in (1..nc) \ used })

LeastCost(cost) ==
    LET nr == Len(cost)
        nc == IF nr = 0 THEN 0 ELSE Len(cost[1])
    IN  IF nr = 0 \/ nc = 0 THEN 0
        ELSE IF nr <= nc THEN LeastCostFrom(cost, nr, nc, 1, {})
        ELSE LeastCostFrom(Transpose(nr, nc, cost), nc, nr, 1, {})

\* cost[i][j] = 1 - IoU(gt[i], gen[j]) in units of 1/scale, written out from
\* the rectangles' coordinates
OverlapCost(gt, gen, scale) ==
    SeqOf(Len(gt), LAMBDA i : SeqOf(Len(gen), LAMBDA j :
        LET w == Min(gt[i].x + gt[i].width, gen[j].x + gen[j].width) - Max(gt[i].x, gen[j].x)
            h == Min(gt[i].y + gt[i].height, gen[j].y + gen[j].height) - Max(gt[i].y, gen[j].y)
            inter == IF w > 0 /\ h > 0 THEN w * h ELSE 0
            union == gt[i].width * gt[i].height + gen[j].width * gen[j].height - inter
        IN  IF union > 0 THEN scale - (inter * scale) \div union ELSE scale))

\* the total cost, in units of 1/scale, of an assignment of n pairs of which
\* the listed ones have the IoU recorded with them and the others have IoU 0
AssignmentCost(pairs, n, scale) ==
    n * scale - SumSeq(SeqOf(Len(pairs), LAMBDA k : Scaled(pairs[k].iou, scale)))

\* C3: with cost[i][j] = 1 - IoU(GT[i], GEN[j]), the assignment behind the pairs
\* of compute_layout_iou and of match_alignment_groups (whose dropped pairs have
\* IoU 0, cost 1) has the least total cost among all one-to-one assignments of
\* min(|GT|, |GEN|) rows to distinct columns.
C3_AssignmentOptimal ==
    (Returned("compute_layout_iou") \/ AlignmentReturned) =>
        LET gt    == IF AlignmentReturned THEN ret.gt_groups ELSE gt_boxes
            gen   == IF AlignmentReturned THEN ret.gen_groups ELSE gen_boxes
            scale == CostScale(IouMatrix(gt, gen, compute_iou))
            n     == Min(Len(gt), Len(gen))
        IN  AssignmentCost(ret.matched_pairs, n, scale)
              = LeastCost(OverlapCost(gt, gen, scale))

\* C3 witness: layout matching of three rectangles against three, where the
\* pairing in list order (1-1, 2-2, 3-3) is not optimal
C3_Witness ==
    /\ Returned("compute_layout_iou")
    /\ Len(gt_boxes) = 3 /\ Len(gen_boxes) = 3
    /\ \E k \in 1..3 : ret.matched_pairs[k].gen # k
    /\ LET scale == CostScale(IouMatrix(gt_boxes, gen_boxes, compute_iou))
           cost  == OverlapCost(gt_boxes, gen_boxes, scale)
       IN  cost[1][1] + cost[2][2] + cost[3][3] > LeastCost(cost)


\* C4: the empty-list convention of compute_layout_iou (rectangle lists) and of
\* compute_alignment_score (group lists): an empty GT list gives recall 1.0,
\* and precision 1.0 if the GEN list is empty too and 0.0 otherwise; an empty
\* GEN list gives precision 1.0.
C4_EmptyListConvention ==
    (Returned("compute_layout_iou") \/ AlignmentReturned) =>
        /\ MatchedGtLen = 0 =>
              /\ ret.recall = 10000
              /\ ret.precision = (IF MatchedGenLen = 0 THEN 10000 ELSE 0)
        /\ MatchedGenLen = 0 => ret.precision = 10000

\* C4 witness: layout matching of an empty GT list against a non-empty GEN list
C4_Witness ==
    Returned("compute_layout_iou") /\ Len(gt_boxes) = 0 /\ Len(gen_boxes) > 0

\* C5: precision and recall of compute_layout_iou and compute_alignment_score
\* lie in [0, 1]; the matched (or correct) pairs are never more than either list.
C5_PrecisionRecallInUnitInterval ==
    (Returned("compute_layout_iou") \/ AlignmentReturned) =>
        /\ ret.precision \in 0..10000
        /\ ret.recall \in 0..10000
        /\ (IF AlignmentReturned THEN ret.num_correct_aligned ELSE ret.num_matched)
              <= Min(MatchedGtLen, MatchedGenLen)

\* C5 witness: an alignment comparison with precision strictly between 0 and 1
C5_Witness ==
    /\ Returned("compute_alignment_score")
    /\ ret.precision > 0 /\ ret.precision < 10000
    /\ ret.num_correct_aligned < Len(ret.matched_pairs)

\* gen holds the same rectangles as gt, each as many times, in any order
SameRectangles(gt, gen) ==
    /\ Len(gt) = Len(gen)
    /\ \A b \in Range(gt) \cup Range(gen) :
          Cardinality({k \in 1..Len(gt) : gt[k] = b})
            = Cardinality({k \in 1..Len(gen) : gen[k] = b})

ScenarioAResult ==
    /\ ret.num_matched = ret.num_gt
    /\ ret.num_gt = ret.num_gen
    /\ ret.mean_iou = 10000
    /\ ret.precision = 10000
    /\ ret.recall = 10000

Disjoint(a, b) ==
    \/ a.x + a.width <= b.x
    \/ b.x + b.width <= a.x
    \/ a.y + a.height <= b.y
    \/ b.y + b.height <= a.y

\* the three laws for one IoU function on the pair (a, b), iou_ab being its
\* value on (a, b)
IoULaws(iou(_, _), iou_ab, a, b) ==
    /\ iou_ab = iou(b, a)
    /\ (a = b /\ a.width > 0 /\ a.height > 0) => iou_ab = <<1, 1>>
    /\ (Disjoint(a, b) \/ a.width * a.height <= 0 \/ b.width * b.height <= 0)
          => iou_ab[1] = 0

\* C7: on rectangles with width, height >= 0, compute_iou (both copies) is
\* symmetric, is 1 on a rectangle of positive width and height with itself, and
\* is 0 when the rectangles are disjoint or one has no area.
C7_IoULaws ==
    Returned("compute_iou") =>
        /\ IoULaws(compute_iou, ret.iou, gt_boxes[1], gen_boxes[1])
        /\ IoULaws(block_compute_iou, ret.block_iou, gt_boxes[1], gen_boxes[1])

\* C7 witness: the IoU of a rectangle of positive area with itself is computed
C7_Witness ==
    /\ Returned("compute_iou")
    /\ gt_boxes[1] = gen_boxes[1]
    /\ gt_boxes[1].width > 0 /\ gt_boxes[1].height > 0
    /\ ret.iou = <<1, 1>>

\* twice the coordinate an edge-kind names, and its bucket round(value / tol)
EdgeValue2(b, type) ==
    CASE type = "x_left"   -> 2 * b.x
      [] type = "x_center" -> 2 * b.x + b.width
      [] type = "x_right"  -> 2 * b.x + 2 * b.width
      [] type = "y_top"    -> 2 * b.y
      [] type = "y_center" -> 2 * b.y + b.height
      [] type = "y_bottom" -> 2 * b.y + 2 * b.height

Bucket(b, type) == RoundHalfEven(EdgeValue2(b, type), 2 * tol)

GroupsOf(groups, type) == {g \in Range(groups) : g.alignment_type = type}

\* the groups built from a list of boxes are the buckets of two or more boxes
BucketsAreGroups(groups, boxes) ==
    /\ \A k \in 1..Len(groups) :
          /\ Len(groups[k].members) >= 2
          /\ groups[k].alignment_type \in Range(AlignmentTypes)
          /\ \A m, n \in Range(groups[k].members) :
                Bucket(boxes[m], groups[k].alignment_type)
                  = Bucket(boxes[n], groups[k].alignment_type)
    /\ \A type \in Range(AlignmentTypes) :
          \A i, j \in 1..Len(boxes) :
              (i # j /\ Bucket(boxes[i], type) = Bucket(boxes[j], type))
                 => \E g \in GroupsOf(groups, type) :
                        {i, j} \subseteq Range(g.members)

\* C8: every group of build_alignment_groups has at least 2 members, all in the
\* same bucket round(value / tolerance) of the group's edge-kind; and any two
\* rectangles in the same bucket of an edge-kind are members of one group of
\* that kind.
C8_GroupsAreBuckets ==
    AlignmentReturned =>
        /\ BucketsAreGroups(ret.gt_groups, gt_boxes)
        /\ call = "compute_alignment_score"
              => BucketsAreGroups(ret.gen_groups, gen_boxes)

\* C8 witness: groups were built from three boxes, two of which share an
\* x_right bucket that the third is not in
C8_Witness ==
    /\ AlignmentReturned
    /\ Len(gt_boxes) = 3
    /\ \E g \in GroupsOf(ret.gt_groups, "x_right") : Len(g.members) = 2

\* C9 (as claimed): rectangles whose left edges agree within the tolerance are
\* together in an x_left group whose x is the minimum x of its members.
C9_LeftEdgeWithinTolerance_AsClaimed ==
    AlignmentReturned =>
        \A i, j \in 1..Len(gt_boxes) :
            (i # j /\ gt_boxes[i].x - gt_boxes[j].x < tol
                   /\ gt_boxes[j].x - gt_boxes[i].x < tol)
               => \E g \in GroupsOf(ret.gt_groups, "x_left") :
                      /\ {i, j} \subseteq Range(g.members)
                      /\ g.x = MinOf({gt_boxes[m].x : m \in Range(g.members)})

\* C9 (amended): rectangles whose left edges are identical, or more generally
\* fall into the same bucket round(x / tolerance), are together in an x_left
\* group whose union-bbox x is the minimum x of its members.
C9_LeftEdgeSameBucket ==
    AlignmentReturned =>
        \A i, j \in 1..Len(gt_boxes) :
            (i # j /\ Bucket(gt_boxes[i], "x_left") = Bucket(gt_boxes[j], "x_left"))
               => \E g \in GroupsOf(ret.gt_groups, "x_left") :
                      /\ {i, j} \subseteq Range(g.members)
                      /\ g.x = MinOf({gt_boxes[m].x : m \in Range(g.members)})

\* C9 witness: an x_left group whose first member is not its leftmost one
C9_Witness ==
    /\ AlignmentReturned
    /\ \E g \in GroupsOf(ret.gt_groups, "x_left") :
          /\ gt_boxes[g.members[1]].x > g.x
          /\ \E m \in Range(g.members) : gt_boxes[m].x = g.x

\* Scenario B: squares of side 0.1 at x = 0, 0.3, 0.6 and y = 0, against the
\* same squares shifted by 0.001 in x, tolerance 0.02 (units of 1/1000)
ScenarioB_GT == <<Box(0, 0, 100, 100), Box(300, 0, 100, 100), Box(600, 0, 100, 100)>>

InScenarioB ==
    /\ Returned("compute_alignment_score")
    /\ gt_boxes = ScenarioB_GT
    /\ gen_boxes = Shifted(ScenarioB_GT, 1)
    /\ tol = FineTolerance
    /\ gt_doc = NoDocument
    /\ gen_doc = NoDocument
    /\ files = NoFiles
    /\ HarnessIdle
    /\ calls = NoCalls

OneBucket(boxes, type) ==
    \A i, j \in 1..Len(boxes) : Bucket(boxes[i], type) = Bucket(boxes[j], type)

PerfectScore == ret.precision = 10000 /\ ret.recall = 10000 /\ ret.f1 = 10000

\* C10 (as claimed): in Scenario B all rectangles fall into one x_left bucket
\* in both trees, and the comparison yields precision = recall = f1 = 1.0.
C10_ScenarioB_AsClaimed ==
    InScenarioB =>
        /\ OneBucket(gt_boxes, "x_left")
        /\ OneBucket(gen_boxes, "x_left")
        /\ PerfectScore

\* C10 (amended): in Scenario B the three rectangles fall into three different
\* x_left buckets (0, 15 and 30) in both trees, so no x_left group is formed;
\* they share their y_top, y_center and y_bottom buckets, which give the same
\* three groups in both trees, and the comparison yields
\* precision = recall = f1 = 1.0.
C10_ScenarioB ==
    InScenarioB =>
        /\ \A k \in 1..3 : /\ Bucket(gt_boxes[k], "x_left") = 15 * (k - 1)
                           /\ Bucket(gen_boxes[k], "x_left") = 15 * (k - 1)
        /\ \A groups \in {ret.gt_groups, ret.gen_groups} :
              /\ SeqOf(Len(groups), LAMBDA k : groups[k].alignment_type)
                    = <<"y_top", "y_center", "y_bottom">>
              /\ \A k \in 1..Len(groups) : groups[k].members = <<1, 2, 3>>
        /\ ret.num_correct_aligned = 3
        /\ PerfectScore

\* C10 witness: the comparison of Scenario B has returned
C10_Witness == InScenarioB /\ Len(ret.matched_pairs) = 3

-----------------------------------------------------------------------------
(* Documents.  A loaded JSON document is a record; a key that may be       *)
(* missing holds <<>> when it is missing and <<value>> when it is present. *)
(* The "nodes" map of the API envelope is the sequence of its values in    *)
(* the order of the file.                                                  *)

\* a node of the design tree
Node(name, type, visible, opacity, box, children) ==
    [name |-> name, type |-> type, visible |-> visible, opacity |-> opacity,
     absoluteBoundingBox |-> box, children |-> children]

\* dict.get(key, default)
Get(field, default) == IF field = <<>> THEN default ELSE field[1]

\* {"document": root}
CanvasDocument(root) == [document |-> <<root>>, nodes |-> <<>>]

\* {"nodes": {key: {"document": root}, ...}}
ApiDocument(roots) ==
    [document |-> <<>>,
     nodes    |-> << SeqOf(Len(roots), LAMBDA k : [document |-> <<roots[k]>>]) >>]

\* what a call that raises leaves to its caller
Raised(exception) == [raised |-> exception]

HasRaised(result) == "raised" \in DOMAIN result

-----------------------------------------------------------------------------
(* evaluation/structure/tree_edit.py                                       *)

UpperCase == "ABCDEFGHIJKLMNOPQRSTUVWXYZ"

LowerCase == "abcdefghijklmnopqrstuvwxyz"

CharAt(s, i) == SubSeq(s, i, i)

LowerChar(c) ==
    IF \E i \in 1..Len(UpperCase) : CharAt(UpperCase, i) = c
    THEN CharAt(LowerCase, CHOOSE i \in 1..Len(UpperCase) : CharAt(UpperCase, i) = c)
    ELSE c

\* str.lower()
RECURSIVE lower(_)
lower(s) ==
    IF Len(s) = 0 THEN ""
    ELSE LowerChar(CharAt(s, 1)) \o lower(SubSeq(s, 2, Len(s)))

\* str.strip(): the blanks at both ends are removed
RECURSIVE strip(_)
strip(s) ==
    IF Len(s) = 0 THEN ""
    ELSE IF CharAt(s, 1) = " " THEN strip(SubSeq(s, 2, Len(s)))
    ELSE IF CharAt(s, Len(s)) = " " THEN strip(SubSeq(s, 1, Len(s) - 1))
    ELSE s

\* the segment with the name taken as it is written
PathSegment_RawName(node, by_type_only) ==
    IF by_type_only THEN Get(node.type, "unknown")
    ELSE Get(node.name, "unknown") \o ":" \o Get(node.type, "unknown")

\* the segment a node adds to the path of its parent
PathSegment(node, by_type_only) ==
    IF by_type_only THEN Get(node.type, "unknown")
    ELSE lower(strip(Get(node.name, "unknown"))) \o ":" \o Get(node.type, "unknown")

CurrentPath(prefix, segment) ==
    IF prefix # "" THEN prefix \o "/" \o segment ELSE "/" \o segment

RECURSIVE ChildPaths(_, _, _)
ChildPaths(children, current, by_type_only) ==
    IF children = <<>> THEN {}
    ELSE ChildPaths(Tail(children), current, by_type_only)
         \cup ChildPaths(Head(children).children,
                         CurrentPath(current, PathSegment(Head(children), by_type_only)),
                         by_type_only)
         \cup {CurrentPath(current, PathSegment(Head(children), by_type_only))}

_extract_paths(node, prefix, by_type_only) ==
    Eager(CurrentPath(prefix, PathSegment(node, by_type_only)),
          LAMBDA current : {current} \cup ChildPaths(node.children, current, by_type_only))

_load_root(data) ==
    IF data.document # <<>> THEN [root |-> data.document[1]]
    ELSE IF data.nodes # <<>>
         THEN IF data.nodes[1] = <<>> THEN Raised("IndexError")
              ELSE IF data.nodes[1][1].document = <<>> THEN Raised("KeyError")
              ELSE [root |-> data.nodes[1][1].document[1]]
    ELSE Raised("ValueError")

\* the mutation that divides by the size of the ground-truth set
Jaccard_OverGt(gt_paths, gen_paths) ==
    IF gt_paths \cup gen_paths # {}
    THEN Ratio(Cardinality(gt_paths \cap gen_paths), Cardinality(gt_paths))
    ELSE <<1, 1>>

\* the mutation that divides by the sum of the two sizes
Jaccard_SumOfSizes(gt_paths, gen_paths) ==
    IF gt_paths \cup gen_paths # {}
    THEN Ratio(Cardinality(gt_paths \cap gen_paths),
               Cardinality(gt_paths) + Cardinality(gen_paths))
    ELSE <<1, 1>>

\* len(intersection) / len(union) if union else 1.0
Jaccard(gt_paths, gen_paths) ==
    IF gt_paths \cup gen_paths # {}
    THEN Ratio(Cardinality(gt_paths \cap gen_paths), Cardinality(gt_paths \cup gen_paths))
    ELSE <<1, 1>>

TreeMetrics(gt_paths, gen_paths, jaccard) ==
    [gt_nodes     |-> Cardinality(gt_paths),
     gen_nodes    |-> Cardinality(gen_paths),
     intersection |-> Cardinality(gt_paths \cap gen_paths),
     union        |-> Cardinality(gt_paths \cup gen_paths),
     jaccard      |-> Round4(jaccard[1], jaccard[2]),
     distance     |-> Round4(jaccard[2] - jaccard[1], jaccard[2])]

TreeOfPaths(gt_paths, gen_paths) ==
    TreeMetrics(gt_paths, gen_paths, Jaccard(gt_paths, gen_paths))

TreeOfRoots(gt_root, gen_root, by_type_only) ==
    IF HasRaised(gt_root) THEN gt_root
    ELSE IF HasRaised(gen_root) THEN gen_root
    ELSE Eager(_extract_paths(gt_root.root, "", by_type_only), LAMBDA gt_paths :
         Eager(_extract_paths(gen_root.root, "", by_type_only), LAMBDA gen_paths :
               TreeOfPaths(gt_paths, gen_paths)))

compute_tree_similarity(gt_json, gen_json, by_type_only) ==
    TreeOfRoots(_load_root(gt_json), _load_root(gen_json), by_type_only)

-----------------------------------------------------------------------------
(* SpecTree: compute_tree_similarity on every pair of small documents.     *)

\* most children drawn for the root of a tree
MaxChildren == 2

\* the name and the type of the nodes drawn; <<>> is a missing key
TreeLabels ==
    { << <<"frame">>, <<"FRAME">> >>, << <<" Frame">>, <<"FRAME">> >>,
      << <<"text">>, <<"TEXT">> >>, << <<>>, <<>> >> }

TreeNode(label, children) == Node(label[1], label[2], <<>>, <<>>, <<>>, children)

TreeLeaves == { TreeNode(l, <<>>) : l \in TreeLabels }

\* a root with at most MaxChildren leaves below it, or with one child that
\* has a leaf below it
Trees ==
    { TreeNode(l, c) : l \in TreeLabels, c \in ListsUpTo(TreeLeaves, MaxChildren) }
    \cup { TreeNode(l, <<TreeNode(m, <<c>>)>>) :
               l \in TreeLabels, m \in TreeLabels, c \in TreeLeaves }

\* every tree in the canvas envelope; one tree in the API envelope; an API
\* envelope with no entry, one whose entry has no document, and a document
\* with neither key
TreeDocuments ==
    { CanvasDocument(t) : t \in Trees }
    \cup { ApiDocument(<<TreeNode(<< <<"frame">>, <<"FRAME">> >>, <<>>)>>),
           ApiDocument(<<>>),
           [document |-> <<>>, nodes |-> << <<[document |-> <<>>]>> >>],
           NoDocument }

InitTree ==
    /\ gt_boxes = <<>>
    /\ gen_boxes = <<>>
    /\ tol = TOLERANCE
    /\ gt_doc \in TreeDocuments
    /\ gen_doc \in TreeDocuments
    /\ files = NoFiles
    /\ HarnessIdle
    /\ calls = NoCalls
    /\ pc = "input"
    /\ call = "none"
    /\ ret = NoResult

ComputeTreeSimilarity ==
    /\ pc = "input"
    /\ pc' = "done"
    /\ \E by_type_only \in BOOLEAN :
          /\ call' = IF by_type_only THEN "compute_tree_similarity_by_type"
                                     ELSE "compute_tree_similarity"
          /\ ret' = compute_tree_similarity(gt_doc, gen_doc, by_type_only)
    /\ UNCHANGED <<inputs, files, calls, harness>>

\* _extract_paths on the root of the ground truth
ExtractPaths ==
    /\ pc = "input"
    /\ pc' = "done"
    /\ \E by_type_only \in BOOLEAN :
          /\ call' = IF by_type_only THEN "_extract_paths_by_type" ELSE "_extract_paths"
          /\ ret' = IF HasRaised(_load_root(gt_doc)) THEN _load_root(gt_doc)
                    ELSE [paths |-> _extract_paths(_load_root(gt_doc).root, "", by_type_only)]
    /\ UNCHANGED <<inputs, files, calls, harness>>

NextTree ==
    \/ ComputeTreeSimilarity
    \/ ExtractPaths

SpecTree == InitTree /\ [][NextTree]_vars

-----------------------------------------------------------------------------
(* Properties of the tree-signature comparison.                            *)

TreeReturned ==
    /\ pc = "done"
    /\ call \in {"compute_tree_similarity", "compute_tree_similarity_by_type"}
    /\ ~HasRaised(ret)

ByTypeOnly == call = "compute_tree_similarity_by_type"

\* the root of a document that has one
RootOf(doc) == _load_root(doc).root

\* the positions of the nodes of a tree: the root is <<>>, and <<k>> \o a is
\* position a below the k-th child
RECURSIVE Addresses(_)
Addresses(node) ==
    {<<>>} \cup UNION { { <<k>> \o a : a \in Addresses(node.children[k]) } :
                         k \in DOMAIN node.children }

RECURSIVE NodeAt(_, _)
NodeAt(node, a) == IF a = <<>> THEN node ELSE NodeAt(node.children[Head(a)], Tail(a))

\* the case-normalized names of the nodes drawn
NormalName(name) ==
    IF name = <<>> THEN "unknown"
    ELSE IF name[1] \in {"frame", " Frame"} THEN "frame"
    ELSE name[1]

SegmentAt(node, by_type_only) ==
    IF by_type_only THEN Get(node.type, "unknown")
    ELSE NormalName(node.name) \o ":" \o Get(node.type, "unknown")

\* the path string of the node at position a: one "/segment" for the root and
\* for each node on the way down
RECURSIVE PathTo(_, _, _, _)
PathTo(root, a, n, by_type_only) ==
    IF n = 0 THEN "/" \o SegmentAt(root, by_type_only)
    ELSE PathTo(root, a, n - 1, by_type_only)
         \o "/" \o SegmentAt(NodeAt(root, SubSeq(a, 1, n)), by_type_only)

PathSet(root, by_type_only) ==
    { PathTo(root, a, Len(a), by_type_only) : a \in Addresses(root) }

GtPathSet == PathSet(RootOf(gt_doc), ByTypeOnly)

GenPathSet == PathSet(RootOf(gen_doc), ByTypeOnly)

\* C11: the Jaccard similarity of two trees is symmetric, it is 1.0 for a
\* tree and itself, and it is 0.0 for two trees whose path sets are disjoint
C11_JaccardLaws ==
    TreeReturned =>
        /\ ret.jaccard = compute_tree_similarity(gen_doc, gt_doc, ByTypeOnly).jaccard
        /\ (RootOf(gt_doc) = RootOf(gen_doc) => ret.jaccard = 10000)
        /\ (GtPathSet \cap GenPathSet = {} => ret.jaccard = 0)

\* C11 witness: two trees of different sizes that share some paths and not all
C11_Witness ==
    /\ TreeReturned
    /\ Cardinality(GtPathSet) < Cardinality(GenPathSet)
    /\ GtPathSet \cap GenPathSet # {}
    /\ ~(GtPathSet \subseteq GenPathSet)

\* the GT path set of Scenario C
ScenarioC_GT == {"/frame:FRAME", "/frame:FRAME/text:TEXT"}

InScenarioC ==
    /\ TreeReturned
    /\ ~ByTypeOnly
    /\ GtPathSet = ScenarioC_GT
    /\ GtPathSet \subseteq GenPathSet
    /\ Cardinality(GenPathSet) = 3

\* C12: the result counts the two path sets, their intersection and their
\* union; jaccard is intersection / union to four decimals, distance is
\* 1 - jaccard; and in Scenario C jaccard is 0.6667
C12_JaccardOfPathSets ==
    TreeReturned =>
        /\ ret.gt_nodes = Cardinality(GtPathSet)
        /\ ret.gen_nodes = Cardinality(GenPathSet)
        /\ ret.intersection = Cardinality(GtPathSet \cap GenPathSet)
        /\ ret.union = Cardinality(GtPathSet \cup GenPathSet)
        /\ 2 * ret.jaccard * ret.union - 20000 * ret.intersection <= ret.union
        /\ 20000 * ret.intersection - 2 * ret.jaccard * ret.union <= ret.union
        /\ ret.distance = 10000 - ret.jaccard
        /\ (InScenarioC => ret.jaccard = 6667)

\* C12 witness: Scenario C has been compared
C12_Witness == InScenarioC /\ ret.intersection = 2 /\ ret.union = 3

-----------------------------------------------------------------------------
(* evaluation/alignment/grid_alignment.py                                  *)
(*                                                                         *)
(* Numbers.  grid_alignment.py measures in pixels.  The model counts in    *)
(* units of 1e-5 pixel, so that the 1e-5 added to the normalization base   *)
(* is one unit.  A center lies on a half unit: the columns center_x and    *)
(* center_y of the data frame hold twice the center.  math.log is computed *)
(* in binary fixed point with LogBits fractional bits, one bit at a time;  *)
(* the value is that of math.log to within 2e-4, and it is non-decreasing  *)
(* in its argument.                                                        *)

\* MIN_ELEMENTS_PER_GROUP of grid_alignment.py
GRID_MIN_ELEMENTS_PER_GROUP == 1

\* the 1e-5 added to the median size
NORM_EPSILON == 1

\* the 1e-2 a normalization base has to exceed
MIN_NORM_BASE == 1000

\* the 200 members a group may not exceed
MAX_GROUP_SIZE == 200

\* the 1e4 a normalized error is clipped to
MAX_NORM_ERROR == 10000

\* fractional bits of the logarithm
LogBits == 14

\* one, in the fixed point of the logarithm
LogScale == 2 ^ LogBits

\* ln 2, in the fixed point of the logarithm
Ln2Scaled == 11357

Abs(v) == IF v < 0 THEN 0 - v ELSE v

\* a[1]/a[2] < b[1]/b[2] for ratios that are not negative, without a product
RECURSIVE RatioLess(_, _)
RatioLess(a, b) ==
    IF a[1] \div a[2] # b[1] \div b[2] THEN a[1] \div a[2] < b[1] \div b[2]
    ELSE IF b[1] % b[2] = 0 THEN FALSE
    ELSE IF a[1] % a[2] = 0 THEN TRUE
    ELSE RatioLess(<<b[2], b[1] % b[2]>>, <<a[2], a[1] % a[2]>>)

RECURSIVE Insert(_, _)
Insert(s, v) ==
    IF s = <<>> THEN <<v>>
    ELSE IF v <= Head(s) THEN <<v>> \o s
    ELSE <<Head(s)>> \o Insert(Tail(s), v)

RECURSIVE Sorted(_)
Sorted(s) == IF s = <<>> THEN <<>> ELSE Insert(Sorted(Tail(s)), Head(s))

\* twice Series.median(): the middle value, or the mean of the two middle ones
Median2Sorted(s) ==
    IF Len(s) % 2 = 1 THEN 2 * s[(Len(s) + 1) \div 2]
    ELSE s[Len(s) \div 2] + s[Len(s) \div 2 + 1]

Median2(values) == Median2Sorted(Sorted(values))

\* group[col]
Column(group, col) == SeqOf(Len(group), LAMBDA k : group[k][col])

\* the sum of |mult * value - base| over a column
SumAbsDev(values, base, mult) ==
    SumSeq(SeqOf(Len(values), LAMBDA k : Abs(mult * values[k] - base)))

EdgeColumn(axis) == IF axis = "x" THEN "right_x" ELSE "bottom_y"

\* error.mean() of a column against its minimum or its maximum
MeanAbsDev(values, base) == Ratio(SumAbsDev(values, base, 1), Len(values))

\* error.mean() of the centers against their median; the column holds twice
\* the centers and base2 is twice the median of the column
MeanCenterDev(values, base2) == Ratio(SumAbsDev(values, base2, 2), 4 * Len(values))

\* float("inf")
InfiniteError == <<1, 0>>

\* alignment_error with the low edges measured from the origin, not from the
\* least low edge of the group
alignment_error_FromOrigin(group, axis, alignment_type) ==
    IF alignment_type \in {"left", "top"}
    THEN MeanAbsDev(Column(group, axis), 0)
    ELSE IF alignment_type = "center"
    THEN MeanCenterDev(Column(group, "center_" \o axis),
                       Median2(Column(group, "center_" \o axis)))
    ELSE IF alignment_type \in {"right", "bottom"}
    THEN MeanAbsDev(Column(group, EdgeColumn(axis)),
                    MaxOf(Range(Column(group, EdgeColumn(axis)))))
    ELSE InfiniteError

alignment_error(group, axis, alignment_type) ==
    IF alignment_type \in {"left", "top"}
    THEN MeanAbsDev(Column(group, axis), MinOf(Range(Column(group, axis))))
    ELSE IF alignment_type = "center"
    THEN MeanCenterDev(Column(group, "center_" \o axis),
                       Median2(Column(group, "center_" \o axis)))
    ELSE IF alignment_type \in {"right", "bottom"}
    THEN MeanAbsDev(Column(group, EdgeColumn(axis)),
                    MaxOf(Range(Column(group, EdgeColumn(axis)))))
    ELSE InfiniteError

alignment_keys(axis) ==
    IF axis = "x" THEN <<"left", "center", "right">> ELSE <<"top", "center", "bottom">>

\* min(errors, key=errors.get) taking the greatest error
BestKey_Greatest(errors) ==
    CHOOSE i \in DOMAIN errors :
        /\ \A j \in DOMAIN errors : ~RatioLess(errors[i], errors[j])
        /\ \A j \in 1..(i - 1) : RatioLess(errors[j], errors[i])

\* min(errors, key=errors.get): the first key of the least error
BestKey(errors) ==
    CHOOSE i \in DOMAIN errors :
        /\ \A j \in DOMAIN errors : ~RatioLess(errors[j], errors[i])
        /\ \A j \in 1..(i - 1) : RatioLess(errors[i], errors[j])

\* the largest k with num / 2^k >= den
RECURSIVE Exponent(_, _, _)
Exponent(num, den, k) ==
    IF num \div (2 ^ (k + 1)) >= den THEN Exponent(num, den, k + 1) ELSE k

\* the first n binary digits of r / den, for 0 <= r < den
RECURSIVE FracBits(_, _, _)
FracBits(r, den, n) ==
    IF n = 0 THEN 0
    ELSE IF 2 * r >= den THEN 2 ^ (n - 1) + FracBits(2 * r - den, den, n - 1)
    ELSE FracBits(2 * r, den, n - 1)

\* the first n binary digits of log2(y / LogScale), for LogScale <= y < 2 * LogScale
RECURSIVE Log2Frac(_, _)
Log2Frac(y, n) ==
    IF n = 0 THEN 0
    ELSE IF (y * y) \div LogScale >= 2 * LogScale
    THEN 2 ^ (n - 1) + Log2Frac((y * y) \div (2 * LogScale), n - 1)
    ELSE Log2Frac((y * y) \div LogScale, n - 1)

LogOfParts(k, mantissa) ==
    k * Ln2Scaled + (Log2Frac(mantissa, LogBits) * Ln2Scaled) \div LogScale

LogOfExponent(num, den, k) ==
    LogOfParts(k, LogScale + FracBits(num - den * (2 ^ k), den * (2 ^ k), LogBits))

\* math.log(num / den) for num >= den > 0, in the fixed point of the logarithm
Log(num, den) == Eager(Exponent(num, den, 0), LAMBDA k : LogOfExponent(num, den, k))

\* the mutation 1 - log(1 + norm_error)
GridScore_OneMinusLog(norm_error) ==
    Eager(Log(norm_error[1] + norm_error[2], norm_error[2]), LAMBDA ln :
          IF ln <= LogScale THEN Round4(LogScale - ln, LogScale)
          ELSE 0 - Round4(ln - LogScale, LogScale))

\* round(1 / (1 + math.log(1 + norm_error)), 4)
GridScore(norm_error) ==
    Eager(Log(norm_error[1] + norm_error[2], norm_error[2]), LAMBDA ln :
          Round4(LogScale, LogScale + ln))

\* norm_error = 1e4 if it exceeds 1e4
Clipped(norm_error) ==
    IF RatioLess(<<MAX_NORM_ERROR, 1>>, norm_error) THEN <<MAX_NORM_ERROR, 1>>
    ELSE norm_error

\* the row of one group; best_error is in units and norm_base2 is twice the
\* normalization base.  alignment_error is returned in 1/100 pixel.
MetricsRow(key, best_type, best_error, norm_error, n) ==
    key @@ [alignment_type   |-> best_type,
            alignment_error  |-> RoundHalfEven(best_error[1], best_error[2] * 1000),
            normalized_error |-> Round4(norm_error[1], norm_error[2]),
            score            |-> GridScore(norm_error),
            num_elements     |-> n]

NormalizedRow(key, best_type, best_error, norm_base2, n) ==
    IF norm_base2 <= 2 * MIN_NORM_BASE \/ n > MAX_GROUP_SIZE THEN <<>>
    ELSE << MetricsRow(key, best_type, best_error,
                       Clipped(Ratio(2 * best_error[1], best_error[2] * norm_base2)), n) >>

BestRow(key, group, axis, errors, best) ==
    NormalizedRow(key, alignment_keys(axis)[best], errors[best],
                  Median2(Column(group, IF axis = "x" THEN "width" ELSE "height"))
                      + 2 * NORM_EPSILON,
                  Len(group))

ErrorsRow(key, group, axis, errors) ==
    Eager(BestKey(errors), LAMBDA best : BestRow(key, group, axis, errors, best))

\* the body of the loop over the groups: no row, or one row
GroupMetrics(key, group, axis) ==
    IF Len(group) < GRID_MIN_ELEMENTS_PER_GROUP THEN <<>>
    ELSE Eager(SeqOf(3, LAMBDA k : alignment_error(group, axis, alignment_keys(axis)[k])),
               LAMBDA errors : ErrorsRow(key, group, axis, errors))

IsInCluster(row, cluster_col, cid) == row[cluster_col] = cid

RECURSIVE ClusterRows(_, _, _, _)
ClusterRows(df, cluster_col, axis, cids) ==
    IF cids = {} THEN <<>>
    ELSE GroupMetrics([cluster |-> MinOf(cids)],
                      SelectSeq(df, LAMBDA row : IsInCluster(row, cluster_col, MinOf(cids))),
                      axis)
         \o ClusterRows(df, cluster_col, axis, cids \ {MinOf(cids)})

compute_alignment_scores(df, cluster_col, axis) ==
    ClusterRows(df, cluster_col, axis, Range(Column(df, cluster_col)))


\* the characters of the names drawn, in the order of their code points
AsciiOrder == " /0123456789:ABCDEFGHIJKLMNOPQRSTUVWXYZ_abcdefghijklmnopqrstuvwxyz"

CharRank(c) == CHOOSE i \in 1..Len(AsciiOrder) : CharAt(AsciiOrder, i) = c

\* a < b for two strings
RECURSIVE StringLess(_, _)
StringLess(a, b) ==
    IF Len(b) = 0 THEN FALSE
    ELSE IF Len(a) = 0 THEN TRUE
    ELSE IF CharAt(a, 1) # CharAt(b, 1) THEN CharRank(CharAt(a, 1)) < CharRank(CharAt(b, 1))
    ELSE StringLess(SubSeq(a, 2, Len(a)), SubSeq(b, 2, Len(b)))

\* the order in which groupby(["depth", "parent"]) yields its keys
KeyLess(a, b) ==
    \/ a.depth < b.depth
    \/ a.depth = b.depth /\ StringLess(a.parent, b.parent)

LeastKey(keys) == CHOOSE a \in keys : \A b \in keys \ {a} : KeyLess(a, b)

IsInGroup(row, key) == row.depth = key.depth /\ row.parent = <<key.parent>>

RECURSIVE GroupRows(_, _, _)
GroupRows(df, axis, keys) ==
    IF keys = {} THEN <<>>
    ELSE GroupMetrics(LeastKey(keys),
                      SelectSeq(df, LAMBDA row : IsInGroup(row, LeastKey(keys))),
                      axis)
         \o GroupRows(df, axis, keys \ {LeastKey(keys)})

\* the keys of groupby(["depth", "parent"]): a row whose parent is None is in
\* no group
GroupKeys(df) ==
    { [depth |-> df[k].depth, parent |-> df[k].parent[1]] :
          k \in {i \in DOMAIN df : df[i].parent # <<>>} }

compute_local_group_alignment(df, axis) == GroupRows(df, axis, GroupKeys(df))

\* the record collect_bounding_boxes appends for a node with a bounding box
BoxRecord(box, name, depth, parent) ==
    [x        |-> box.x,
     y        |-> box.y,
     width    |-> box.width,
     height   |-> box.height,
     name     |-> name,
     center_x |-> 2 * box.x + box.width,
     center_y |-> 2 * box.y + box.height,
     right_x  |-> box.x + box.width,
     bottom_y |-> box.y + box.height,
     depth    |-> depth,
     parent   |-> parent]

-----------------------------------------------------------------------------
(* SpecGridScore: compute_alignment_scores and compute_local_group_alignment*)
(* on a data frame of two groups.  gt_boxes are the members of column       *)
(* cluster 0 and the children of "a"; gen_boxes are the members of column   *)
(* cluster 1 and the children of "b".                                       *)

\* Bounding boxes in units of 1e-5 pixel: three elements 0.01 px wide that lie
\* 250 px apart, 20 and 40 px high, and an element of no size.
ScoreBoxes ==
    { Box(0, 0, 1000, 2000000), Box(25000000, 1000000, 1000, 2000000),
      Box(50000000, 0, 1000, 4000000), Box(0, 0, 0, 0) }

ScoreFrame(first, second) ==
    SeqOf(Len(first), LAMBDA k :
              BoxRecord(first[k], "el", 1, <<"a">>) @@ [col_cluster |-> 0])
    \o SeqOf(Len(second), LAMBDA k :
              BoxRecord(second[k], "el", 1, <<"b">>) @@ [col_cluster |-> 1])

InitGridScore ==
    /\ gt_boxes \in ListsUpTo(ScoreBoxes, MaxBoxes)
    /\ gen_boxes \in ListsUpTo(ScoreBoxes, MaxBoxes)
    /\ tol = TOLERANCE
    /\ gt_doc = NoDocument
    /\ gen_doc = NoDocument
    /\ files = NoFiles
    /\ HarnessIdle
    /\ calls = NoCalls
    /\ pc = "input"
    /\ call = "none"
    /\ ret = NoResult

ComputeAlignmentScores ==
    /\ pc = "input"
    /\ pc' = "done"
    /\ \E axis \in {"x", "y"} :
          /\ call' = "compute_alignment_scores_" \o axis
          /\ ret' = [table |-> compute_alignment_scores(
                                   ScoreFrame(gt_boxes, gen_boxes), "col_cluster", axis)]
    /\ UNCHANGED <<inputs, files, calls, harness>>

ComputeLocalGroupAlignment ==
    /\ pc = "input"
    /\ pc' = "done"
    /\ \E axis \in {"x", "y"} :
          /\ call' = "compute_local_group_alignment_" \o axis
          /\ ret' = [table |-> compute_local_group_alignment(
                                   ScoreFrame(gt_boxes, gen_boxes), axis)]
    /\ UNCHANGED <<inputs, files, calls, harness>>

NextGridScore ==
    \/ ComputeAlignmentScores
    \/ ComputeLocalGroupAlignment

SpecGridScore == InitGridScore /\ [][NextGridScore]_vars

-----------------------------------------------------------------------------
(* Properties of the per-cluster score.                                    *)

GridScoreReturned ==
    /\ pc = "done"
    /\ call \in {"compute_alignment_scores_x", "compute_alignment_scores_y",
                 "compute_local_group_alignment_x", "compute_local_group_alignment_y"}

ScoreAxis ==
    IF call \in {"compute_alignment_scores_x", "compute_local_group_alignment_x"}
    THEN "x" ELSE "y"

\* the members of group g of the data frame: 1 is cluster 0 and the children
\* of "a", 2 is cluster 1 and the children of "b"
MembersOf(g) == IF g = 1 THEN gt_boxes ELSE gen_boxes

IsRowOf(row, g) ==
    IF "cluster" \in DOMAIN row THEN row.cluster = g - 1
    ELSE row.parent = (IF g = 1 THEN "a" ELSE "b")

HasRow(g) == \E k \in DOMAIN ret.table : IsRowOf(ret.table[k], g)

RowOf(g) == ret.table[CHOOSE k \in DOMAIN ret.table : IsRowOf(ret.table[k], g)]

\* the k-th smallest value of a sequence
OrderStat(v, k) ==
    CHOOSE m \in Range(v) :
        /\ Cardinality({i \in DOMAIN v : v[i] < m}) < k
        /\ Cardinality({i \in DOMAIN v : v[i] <= m}) >= k

\* twice the median of a sequence
TwiceMedian(v) == OrderStat(v, (Len(v) + 1) \div 2) + OrderStat(v, Len(v) \div 2 + 1)

LowEdges(boxes, axis) ==
    SeqOf(Len(boxes), LAMBDA k : IF axis = "x" THEN boxes[k].x ELSE boxes[k].y)

Sizes(boxes, axis) ==
    SeqOf(Len(boxes), LAMBDA k : IF axis = "x" THEN boxes[k].width ELSE boxes[k].height)

HighEdges(boxes, axis) ==
    SeqOf(Len(boxes), LAMBDA k : LowEdges(boxes, axis)[k] + Sizes(boxes, axis)[k])

TwiceCenters(boxes, axis) ==
    SeqOf(Len(boxes), LAMBDA k : 2 * LowEdges(boxes, axis)[k] + Sizes(boxes, axis)[k])

SumOfDistances(v, base, mult) ==
    SumSeq(SeqOf(Len(v), LAMBDA k : Abs(mult * v[k] - base)))

\* the mean absolute deviation under each of the three rules
RuleDeviations(boxes, axis) ==
    { Ratio(SumOfDistances(LowEdges(boxes, axis), MinOf(Range(LowEdges(boxes, axis))), 1),
            Len(boxes)),
      Ratio(SumOfDistances(TwiceCenters(boxes, axis), TwiceMedian(TwiceCenters(boxes, axis)), 2),
            4 * Len(boxes)),
      Ratio(SumOfDistances(HighEdges(boxes, axis), MaxOf(Range(HighEdges(boxes, axis))), 1),
            Len(boxes)) }

LeastDeviation(boxes, axis) ==
    CHOOSE d \in RuleDeviations(boxes, axis) :
        \A e \in RuleDeviations(boxes, axis) : ~RatioLess(e, d)

\* the normalized deviation of a group: its least mean absolute deviation over
\* its median size plus 1e-5
NormalizedDeviation(boxes, axis) ==
    Ratio(2 * LeastDeviation(boxes, axis)[1],
          LeastDeviation(boxes, axis)[2] * (TwiceMedian(Sizes(boxes, axis)) + 2))

DeviationOf(g) == NormalizedDeviation(MembersOf(g), ScoreAxis)

ScoreInRange ==
    \A k \in DOMAIN ret.table : ret.table[k].score > 0 /\ ret.table[k].score <= 10000

ScoreOneAtZero ==
    \A g \in {1, 2} : HasRow(g) /\ DeviationOf(g)[1] = 0 => RowOf(g).score = 10000

\* C13 as claimed: the score is 1.0 at zero deviation, it lies in (0, 1], and
\* of two groups the one with the larger normalized deviation has the strictly
\* smaller score
C13_ScoreStrictlyDecreasing_AsClaimed ==
    GridScoreReturned =>
        /\ ScoreOneAtZero
        /\ ScoreInRange
        /\ \A g \in {1, 2}, h \in {1, 2} :
               HasRow(g) /\ HasRow(h) /\ RatioLess(DeviationOf(g), DeviationOf(h))
                   => RowOf(g).score > RowOf(h).score

\* C13: the score is 1.0 at zero deviation, it lies in (0, 1], and of two
\* groups the one with the larger normalized deviation never has the larger
\* score
C13_ScoreNeverIncreasing ==
    GridScoreReturned =>
        /\ ScoreOneAtZero
        /\ ScoreInRange
        /\ \A g \in {1, 2}, h \in {1, 2} :
               HasRow(g) /\ HasRow(h) /\ RatioLess(DeviationOf(g), DeviationOf(h))
                   => RowOf(g).score >= RowOf(h).score

\* C13 witness: two groups with deviations that are not zero and differ, and
\* with different scores
C13_Witness ==
    /\ GridScoreReturned
    /\ HasRow(1)
    /\ HasRow(2)
    /\ DeviationOf(1)[1] > 0
    /\ RatioLess(DeviationOf(1), DeviationOf(2))
    /\ RowOf(1).score > RowOf(2).score

-----------------------------------------------------------------------------
(* grid_alignment.py: from the document to the overall score.              *)

DECORATIVE_KEYWORDS == <<"freepik">>

MAX_DEPTH == 10

\* sub in s
Contains(s, sub) ==
    \E i \in 1..(Len(s) - Len(sub) + 1) : SubSeq(s, i, i + Len(sub) - 1) = sub

is_decorative(name) ==
    \E k \in DOMAIN DECORATIVE_KEYWORDS : Contains(lower(name), DECORATIVE_KEYWORDS[k])

\* the record of a node, if it has a bounding box
OwnRecord(node, depth, parent) ==
    IF node.absoluteBoundingBox # <<>>
    THEN << BoxRecord(node.absoluteBoundingBox[1], Get(node.name, "unknown"), depth, parent) >>
    ELSE <<>>

RECURSIVE collect_bounding_boxes(_, _, _)
RECURSIVE CollectChildren(_, _, _)
CollectChildren(children, depth, parent) ==
    IF children = <<>> THEN <<>>
    ELSE collect_bounding_boxes(Head(children), depth, parent)
         \o CollectChildren(Tail(children), depth, parent)

collect_bounding_boxes(node, depth, parent) ==
    IF depth > MAX_DEPTH \/ is_decorative(Get(node.name, "")) THEN <<>>
    ELSE OwnRecord(node, depth, parent) \o CollectChildren(node.children, depth + 1, node.name)

\* the {} that v.get("document", {}) yields for an entry without a document
EmptyNode == Node(<<>>, <<>>, <<>>, <<>>, <<>>, <<>>)

RECURSIVE CollectRoots(_)
CollectRoots(entries) ==
    IF entries = <<>> THEN <<>>
    ELSE collect_bounding_boxes(Get(Head(entries).document, EmptyNode), 0, <<>>)
         \o CollectRoots(Tail(entries))

\* pd.DataFrame(records)
DataFrame(records) == [records |-> records]

\* the data frame, or the exception raised
load_figma_boxes(data) ==
    IF data.nodes # <<>> THEN DataFrame(CollectRoots(data.nodes[1]))
    ELSE IF data.document # <<>>
    THEN DataFrame(collect_bounding_boxes(data.document[1], 0, <<>>))
    ELSE Raised("ValueError")

\* The labels KMeans(n_clusters, random_state=0).fit(column).predict(column) can
\* give.  predict labels a value by its nearest center, so a cluster is a run
\* of the sorted distinct values and is given by the places where the runs are
\* cut.  When there are no more distinct values than clusters, every distinct
\* value is a center and a cluster of its own; otherwise the centers depend on
\* the seeded initialization, and every cutting into at most n_clusters runs
\* is taken.  Clusters are numbered here by ascending center; the numbering
\* only orders the rows of a table.
RankOf(values, v) == Cardinality({w \in Range(values) : w < v})

LabelsOfCuts(values, cuts) ==
    SeqOf(Len(values), LAMBDA k : Cardinality({c \in cuts : c <= RankOf(values, values[k])}))

KMeansLabels(values, n_clusters) ==
    { LabelsOfCuts(values, cuts) :
          cuts \in { c \in SUBSET (1..(Cardinality(Range(values)) - 1)) :
                        /\ Cardinality(c) <= n_clusters - 1
                        /\ Cardinality(Range(values)) <= n_clusters
                               => Cardinality(c) = Cardinality(Range(values)) - 1 } }

ClusterCount(n_clusters, n_samples) ==
    IF n_samples > 0 THEN Min(n_clusters, n_samples) ELSE 1

\* the labelings the two clusterings of a data frame can give
KMeansOutcomes(df) ==
    IF HasRaised(df) \/ df.records = <<>> THEN { [col |-> <<>>, row |-> <<>>] }
    ELSE { [col |-> c, row |-> r] :
               c \in KMeansLabels(Column(df.records, "center_x"),
                                  ClusterCount(3, Len(df.records))),
               r \in KMeansLabels(Column(df.records, "center_y"),
                                  ClusterCount(5, Len(df.records))) }

Labelled(df, kmeans) ==
    SeqOf(Len(df), LAMBDA k :
              df[k] @@ [col_cluster |-> kmeans.col[k], row_cluster |-> kmeans.row[k]])

AnalyzeLabelled(df) ==
    [col_alignment       |-> compute_alignment_scores(df, "col_cluster", "x"),
     row_alignment       |-> compute_alignment_scores(df, "row_cluster", "y"),
     local_col_alignment |-> compute_local_group_alignment(df, "x"),
     local_row_alignment |-> compute_local_group_alignment(df, "y")]

\* df[["center_x"]] of a data frame without records raises KeyError
AnalyzeFrame(df, kmeans) ==
    IF HasRaised(df) THEN df
    ELSE IF df.records = <<>> THEN Raised("KeyError")
    ELSE Eager(Labelled(df.records, kmeans), LAMBDA labelled : AnalyzeLabelled(labelled))

analyze_grid_alignment(data, kmeans) == AnalyzeFrame(load_figma_boxes(data), kmeans)

\* df["score"].mean(), in units of 1/10000
TableMean(table) == Ratio(SumSeq(Column(table, "score")), Len(table))

NonEmpty(score_dfs) == SelectSeq(score_dfs, LAMBDA df : df # <<>>)

\* the sum of a sequence of ratios, over their common denominator
SumOfRatios(ratios) ==
    Eager(LcmOver({ ratios[k][2] : k \in DOMAIN ratios }), LAMBDA den :
          << SumSeq(SeqOf(Len(ratios), LAMBDA k : ratios[k][1] * (den \div ratios[k][2]))), den >>)

\* round(np.mean(scores), 4) if scores else 0.0
MeanOfScores(scores, count) ==
    IF scores = <<>> THEN 0
    ELSE Eager(SumOfRatios(scores), LAMBDA sum : RoundHalfEven(sum[1], sum[2] * count))

\* the mutation that averages over all the tables passed
compute_global_alignment_score_OverAllTables(score_dfs) ==
    Eager(NonEmpty(score_dfs), LAMBDA filled :
          MeanOfScores(SeqOf(Len(filled), LAMBDA k : TableMean(filled[k])), Len(score_dfs)))

compute_global_alignment_score(score_dfs) ==
    Eager(NonEmpty(score_dfs), LAMBDA filled :
          MeanOfScores(SeqOf(Len(filled), LAMBDA k : TableMean(filled[k])), Len(filled)))

ScoreOfResults(results) ==
    compute_global_alignment_score(<< results.col_alignment, results.row_alignment,
                                      results.local_col_alignment,
                                      results.local_row_alignment >>)

GridResultGt(gt_results) ==
    [gt_score |-> ScoreOfResults(gt_results), gt_detail |-> gt_results]

GridResultBoth(gt, gen_results) ==
    Eager(ScoreOfResults(gen_results), LAMBDA gen_score :
          gt @@ [gen_score  |-> gen_score,
                 gen_detail |-> gen_results,
                 difference |-> gt.gt_score - gen_score])

GridWithGen(gt, gen_results) ==
    IF HasRaised(gen_results) THEN gen_results ELSE GridResultBoth(gt, gen_results)

GridOfGt(gt_results, gen_json, has_gen, gen_kmeans) ==
    IF HasRaised(gt_results) THEN gt_results
    ELSE IF ~has_gen THEN GridResultGt(gt_results)
    ELSE Eager(GridResultGt(gt_results), LAMBDA gt :
               GridWithGen(gt, analyze_grid_alignment(gen_json, gen_kmeans)))

\* compute_alignment_score of grid_alignment.py; the two labelings are what the
\* clusterings of the two documents give
grid_compute_alignment_score(gt_json, gen_json, has_gen, gt_kmeans, gen_kmeans) ==
    Eager(analyze_grid_alignment(gt_json, gt_kmeans), LAMBDA gt_results :
          GridOfGt(gt_results, gen_json, has_gen, gen_kmeans))

-----------------------------------------------------------------------------
(* SpecGrid: compute_alignment_score of grid_alignment.py on small         *)
(* documents: a root and its children.                                     *)

\* most children drawn for the root of a document
MaxSiblings == 3

\* Bounding boxes of the children, in units of 1e-5 pixel: three elements of
\* 10 to 20 px, an element of no width and an element of no size.
GridChildBoxes ==
    { Box(0, 0, 1000000, 1000000), Box(2000000, 0, 1000000, 2000000),
      Box(0, 3000000, 2000000, 1000000), Box(0, 0, 0, 1000000), Box(0, 0, 0, 0) }

GridRootBox == Box(0, 0, 4000000, 4000000)

GridChild(box) == Node(<<"el">>, <<"RECTANGLE">>, <<>>, <<>>, <<box>>, <<>>)

\* a named frame with a bounding box, a named frame without one, and a frame
\* without a name
GridRoots(children) ==
    { Node(<<"frame">>, <<"FRAME">>, <<>>, <<>>, <<GridRootBox>>, children),
      Node(<<"frame">>, <<"FRAME">>, <<>>, <<>>, <<>>, children),
      Node(<<>>, <<"FRAME">>, <<>>, <<>>, <<GridRootBox>>, children) }

GridChildren == ListsUpTo({ GridChild(b) : b \in GridChildBoxes }, MaxSiblings)

\* every root in the canvas envelope; a decorative root; a root with two
\* containers of the same name, each with one child; an API envelope of two
\* roots, one of which has no document; a document with neither key
GridDocuments ==
    { CanvasDocument(r) : r \in UNION { GridRoots(c) : c \in GridChildren } }
    \cup { CanvasDocument(Node(<<"Freepik bg">>, <<"FRAME">>, <<>>, <<>>, <<GridRootBox>>,
                               <<GridChild(GridRootBox)>>)),
           CanvasDocument(Node(<<"frame">>, <<"FRAME">>, <<>>, <<>>, <<GridRootBox>>,
                               << Node(<<"card">>, <<"FRAME">>, <<>>, <<>>, <<>>,
                                       <<GridChild(Box(0, 0, 1000000, 1000000))>>),
                                  Node(<<"card">>, <<"FRAME">>, <<>>, <<>>, <<>>,
                                       <<GridChild(Box(2000000, 0, 1000000, 2000000))>>) >>)),
           [document |-> <<>>,
            nodes    |-> << << [document |-> <<GridChild(GridRootBox)>>],
                               [document |-> <<>>] >> >>],
           NoDocument }

\* the generated documents drawn: two aligned children, one child of no size,
\* no element at all, and a document with neither key
GenGridDocuments ==
    { CanvasDocument(Node(<<"frame">>, <<"FRAME">>, <<>>, <<>>, <<GridRootBox>>,
                          << GridChild(Box(0, 0, 1000000, 1000000)),
                             GridChild(Box(2000000, 0, 1000000, 2000000)) >>)),
      CanvasDocument(Node(<<"frame">>, <<"FRAME">>, <<>>, <<>>, <<>>,
                          << GridChild(Box(0, 0, 0, 0)) >>)),
      CanvasDocument(Node(<<"frame">>, <<"FRAME">>, <<>>, <<>>, <<>>, <<>>)),
      NoDocument }

InitGrid ==
    /\ gt_boxes = <<>>
    /\ gen_boxes = <<>>
    /\ tol = TOLERANCE
    /\ gt_doc \in GridDocuments
    /\ gen_doc \in GenGridDocuments
    /\ files = NoFiles
    /\ HarnessIdle
    /\ calls = NoCalls
    /\ pc = "input"
    /\ call = "none"
    /\ ret = NoResult

GridComputeAlignmentScore ==
    /\ pc = "input"
    /\ pc' = "done"
    /\ \E has_gen \in BOOLEAN :
       \E gt_kmeans \in KMeansOutcomes(load_figma_boxes(gt_doc)) :
       \E gen_kmeans \in KMeansOutcomes(load_figma_boxes(gen_doc)) :
          /\ call' = IF has_gen THEN "grid_compute_alignment_score"
                               ELSE "grid_compute_alignment_score_gt_only"
          /\ ret' = grid_compute_alignment_score(gt_doc, gen_doc, has_gen,
                                                 gt_kmeans, gen_kmeans)
    /\ UNCHANGED <<inputs, files, calls, harness>>

NextGrid == GridComputeAlignmentScore

SpecGrid == InitGrid /\ [][NextGrid]_vars

-----------------------------------------------------------------------------
(* Properties of the overall grid alignment score.                         *)

GridCalled ==
    /\ pc = "done"
    /\ call \in {"grid_compute_alignment_score", "grid_compute_alignment_score_gt_only"}

GridReturned == GridCalled /\ ~HasRaised(ret)

GridHasGen == call = "grid_compute_alignment_score"

TableNames ==
    {"col_alignment", "row_alignment", "local_col_alignment", "local_row_alignment"}

FilledTables(detail) == { t \in TableNames : detail[t] # <<>> }

ScoreSum(table) == SumSeq(SeqOf(Len(table), LAMBDA k : table[k].score))

RECURSIVE ProductOfLengths(_, _)
ProductOfLengths(detail, tables) ==
    IF tables = {} THEN 1
    ELSE Len(detail[CHOOSE t \in tables : TRUE])
         * ProductOfLengths(detail, tables \ {CHOOSE t \in tables : TRUE})

\* the sum of the means of the filled tables, times the product of their lengths
RECURSIVE SumOfMeans(_, _, _)
SumOfMeans(detail, tables, product) ==
    IF tables = {} THEN 0
    ELSE ScoreSum(detail[CHOOSE t \in tables : TRUE])
             * (product \div Len(detail[CHOOSE t \in tables : TRUE]))
         + SumOfMeans(detail, tables \ {CHOOSE t \in tables : TRUE}, product)

\* score is num / den rounded to the nearest integer
IsRounded(score, num, den) ==
    /\ 2 * (score * den - num) <= den
    /\ 2 * (num - score * den) <= den

\* score is the mean, over the tables that have rows, of the mean score of the
\* table, in units of 1/10000; it is 0 when no table has rows
IsMeanOfTableMeans(score, detail) ==
    IF FilledTables(detail) = {} THEN score = 0
    ELSE IsRounded(score,
                   SumOfMeans(detail, FilledTables(detail),
                              ProductOfLengths(detail, FilledTables(detail))),
                   ProductOfLengths(detail, FilledTables(detail))
                       * Cardinality(FilledTables(detail)))

IsDocument(doc) ==
    \/ doc.document # <<>>
    \/ /\ doc.nodes # <<>>
       /\ \A k \in DOMAIN doc.nodes[1] : doc.nodes[1][k].document # <<>>

\* C15: for every document, grid compute_alignment_score returns gt_score in
\* [0, 1], and with a generated document also gen_score and difference =
\* gt_score - gen_score
C15_GridScoreInUnitInterval ==
    GridCalled /\ IsDocument(gt_doc) /\ (GridHasGen => IsDocument(gen_doc)) =>
        /\ ~HasRaised(ret)
        /\ ret.gt_score >= 0
        /\ ret.gt_score <= 10000
        /\ GridHasGen =>
               /\ {"gen_score", "difference"} \subseteq DOMAIN ret
               /\ ret.difference = ret.gt_score - ret.gen_score

-----------------------------------------------------------------------------
(* Concurrent calls.  compute_layout_iou (hungarian_iou.py) and            *)
(* compute_alignment_score (group_alignment.py) keep every intermediate    *)
(* value in locals, but both take an output directory: when out_dir is     *)
(* given they make the directory out_dir/case_id and write a report file   *)
(* into it.  The file system is the one thing two calls running at the     *)
(* same time share.  SpecConcurrent interleaves the steps of MaxCalls      *)
(* calls; calls[i] holds the arguments and the locals of call i, files     *)
(* the directories made and the report files written so far.  No image     *)
(* path is given to the calls (gt_img_path = gen_img_path = None), so the  *)
(* report is the only file a call writes.                                  *)

\* number of calls in progress at the same time
MaxCalls == 2

CallIds == 1..MaxCalls

\* os.path.join of a directory and a relative name
PathJoin(directory, name) == directory \o "/" \o name

\* os.path.join(out_dir, case_id)
CaseDirectory(c) == PathJoin(c.out_dir[1], c.case_id)

\* the report file of a call: layout_iou_report.json or alignment_report.json
ReportFile(name) ==
    IF name = "compute_layout_iou" THEN "layout_iou_report.json"
                                   ELSE "alignment_report.json"

ReportPath(c) == PathJoin(CaseDirectory(c), ReportFile(c.name))

\* `if out_dir:` -- None (the default) and the empty string are false
HasOutDir(c) == c.out_dir # <<>> /\ c.out_dir[1] # ""

\* the work of a call between its first and its last access to the file
\* system: loading, grouping, matching and the metrics, all in locals
CallMetrics(c) ==
    IF c.name = "compute_layout_iou"
    THEN compute_layout_iou(c.gt, c.gen)
    ELSE compute_alignment_score(c.gt, c.gen, TRUE, TOLERANCE)

\* the dictionary a call dumps into its report file
LayoutSummary(m) ==
    [matched_pairs |-> m.matched_pairs,
     mean_iou      |-> m.mean_iou,
     precision     |-> m.precision,
     recall        |-> m.recall,
     num_gt        |-> m.num_gt,
     num_gen       |-> m.num_gen,
     num_matched   |-> m.num_matched]

AlignmentSummary(m) ==
    [gt_num_groups  |-> m.num_gt_groups,
     gen_num_groups |-> m.num_gen_groups,
     num_matched    |-> Len(m.matched_pairs),
     correct        |-> m.num_correct_aligned,
     precision      |-> m.precision,
     recall         |-> m.recall,
     f1             |-> m.f1,
     matched_pairs  |-> m.matched_pairs]

ReportSummary(c) ==
    IF c.name = "compute_layout_iou" THEN LayoutSummary(c.metrics)
                                     ELSE AlignmentSummary(c.metrics)

\* the dictionary a call returns
LayoutReturn(m) ==
    [num_gt      |-> m.num_gt,
     num_gen     |-> m.num_gen,
     num_matched |-> m.num_matched,
     mean_iou    |-> m.mean_iou,
     precision   |-> m.precision,
     recall      |-> m.recall,
     num_unmatched_gt  |-> m.num_unmatched_gt,
     num_unmatched_gen |-> m.num_unmatched_gen]

AlignmentReturn(m) ==
    [precision |-> m.precision,
     recall    |-> m.recall,
     f1        |-> m.f1,
     num_gt_groups  |-> m.num_gt_groups,
     num_gen_groups |-> m.num_gen_groups,
     num_correct_aligned |-> m.num_correct_aligned]

CallReturn(c) ==
    IF c.name = "compute_layout_iou" THEN LayoutReturn(c.metrics)
                                     ELSE AlignmentReturn(c.metrics)

\* open(path, "w") followed by json.dump: the file at path now holds the
\* summary, whatever it held before; writer records the call that wrote it
WriteReport(fs, path, writer, summary) ==
    [fs EXCEPT !.reports = (path :> [writer |-> writer, summary |-> summary]) @@ @]

\* os.makedirs(path, exist_ok=True)
MakeDirs(fs, path) == [fs EXCEPT !.dirs = @ \cup {path}]

\* Arguments of the calls drawn under SpecConcurrent: an empty and a
\* one-element ground truth against a one-element candidate that overlaps it,
\* with or without an output directory, under the default case_id or another.
ConcurrentGt == {<<>>, <<Box(0, 0, 2, 2)>>}

ConcurrentGen == {<<Box(1, 0, 2, 2)>>}

CallArguments ==
    [name    : {"compute_layout_iou", "compute_alignment_score"},
     gt      : ConcurrentGt,
     gen     : ConcurrentGen,
     out_dir : {<<>>, <<"out">>},
     case_id : {"caseX", "case1"}]

Called(arguments) ==
    arguments @@ [pc |-> "called", metrics |-> NoResult, result |-> NoResult]

InitConcurrent ==
    /\ gt_boxes = <<>> /\ gen_boxes = <<>> /\ tol = TOLERANCE
    /\ gt_doc = NoDocument /\ gen_doc = NoDocument
    /\ files = NoFiles
    /\ HarnessIdle
    /\ calls \in [CallIds -> {Called(a) : a \in CallArguments}]
    /\ pc = "input" /\ call = "none" /\ ret = NoResult

\* the first statement of a call: compute_layout_iou makes its directory
\* before it loads anything, compute_alignment_score touches nothing yet
StartCall(i) ==
    /\ calls[i].pc = "called"
    /\ files' = IF calls[i].name = "compute_layout_iou" /\ HasOutDir(calls[i])
                THEN MakeDirs(files, CaseDirectory(calls[i]))
                ELSE files
    /\ calls' = [calls EXCEPT ![i].pc = "started"]
    /\ UNCHANGED <<inputs, pc, call, ret, harness>>

\* loading, matching and the metrics
ComputeCall(i) ==
    /\ calls[i].pc = "started"
    /\ calls' = [calls EXCEPT ![i].pc = "computed",
                              ![i].metrics = CallMetrics(calls[i])]
    /\ UNCHANGED <<inputs, files, pc, call, ret, harness>>

\* the `if out_dir:` block after the metrics: compute_alignment_score makes
\* its directory here, and both write their report
ReportCall(i) ==
    /\ calls[i].pc = "computed"
    /\ files' = IF HasOutDir(calls[i])
                THEN WriteReport(MakeDirs(files, CaseDirectory(calls[i])),
                                 ReportPath(calls[i]), i, ReportSummary(calls[i]))
                ELSE files
    /\ calls' = [calls EXCEPT ![i].pc = "reported"]
    /\ UNCHANGED <<inputs, pc, call, ret, harness>>

\* the return statement
ReturnCall(i) ==
    /\ calls[i].pc = "reported"
    /\ calls' = [calls EXCEPT ![i].pc = "returned",
                              ![i].result = CallReturn(calls[i])]
    /\ UNCHANGED <<inputs, files, pc, call, ret, harness>>

NextConcurrent ==
    \/ \E i \in CallIds : StartCall(i)
    \/ \E i \in CallIds : ComputeCall(i)
    \/ \E i \in CallIds : ReportCall(i)
    \/ \E i \in CallIds : ReturnCall(i)

SpecConcurrent == InitConcurrent /\ [][NextConcurrent]_vars

\* what call i returns when it runs with no other call in progress
SoloReturn(c) == CallReturn([c EXCEPT !.metrics = CallMetrics(c)])

ReturnsAsAlone ==
    \A i \in DOMAIN calls :
        calls[i].pc = "returned" => calls[i].result = SoloReturn(calls[i])

\* a step leaves every file that exists in the hands of the call that wrote it
NoOverwrite ==
    \A path \in DOMAIN files.reports :
        /\ path \in DOMAIN files'.reports
        /\ files'.reports[path].writer = files.reports[path].writer

\* C16: calls running at the same time share no mutable state: each returns
\* what it would return alone, and no call overwrites data written by another.
C16_NoSharedState == []ReturnsAsAlone /\ [][NoOverwrite]_vars

-----------------------------------------------------------------------------
(* The flatteners.  Three routines walk a loaded document and emit its     *)
(* rectangles: extract_boxes_from_node behind load_boxes_from_json         *)
(* (hungarian_iou.py), which layout matching and alignment-group           *)
(* comparison read; extract_nodes_recursive behind load_and_normalize_boxes*)
(* (block_matcher.py); and collect_bounding_boxes behind load_figma_boxes  *)
(* (grid_alignment.py), modelled above.  Coordinates of a document are     *)
(* whole pixels and an opacity is counted in units of 1/100.  A rectangle  *)
(* normalized by the root frame is counted in units of 1/NormUnit of the   *)
(* frame's side; the frames drawn have sides that divide NormUnit times    *)
(* every coordinate drawn, so the division of the code is exact here.      *)

\* the 0.01 of `opacity > 0.01`
OPACITY_EPSILON == 1

\* the 1.0 of node.get("opacity", 1.0)
DEFAULT_OPACITY == 100

\* units of the normalized canvas per side of the root frame
NormUnit == 100

\* visible and opacity > 0.01 and "absoluteBoundingBox" in node
IsExtracted(node) ==
    /\ Get(node.visible, TRUE)
    /\ Get(node.opacity, DEFAULT_OPACITY) > OPACITY_EPSILON
    /\ node.absoluteBoundingBox # <<>>

\* the result dictionary of a node
ExtractedBox(node, depth) ==
    [name   |-> Get(node.name, "unknown"),
     type   |-> Get(node.type, "unknown"),
     x      |-> node.absoluteBoundingBox[1].x,
     y      |-> node.absoluteBoundingBox[1].y,
     width  |-> node.absoluteBoundingBox[1].width,
     height |-> node.absoluteBoundingBox[1].height,
     depth  |-> depth]

RECURSIVE extract_boxes_from_node(_, _)
RECURSIVE ExtractChildren(_, _)
ExtractChildren(children, depth) ==
    IF children = <<>> THEN <<>>
    ELSE extract_boxes_from_node(Head(children), depth)
         \o ExtractChildren(Tail(children), depth)

\* the results appended by the call, in the order of the walk
extract_boxes_from_node(node, depth) ==
    (IF IsExtracted(node) THEN <<ExtractedBox(node, depth)>> ELSE <<>>)
    \o ExtractChildren(node.children, depth + 1)

\* find_root_frame accepting a node of any type that has a bounding box
RECURSIVE find_root_frame_AnyType(_)
find_root_frame_AnyType(node) ==
    LET RECURSIVE FirstOf(_)
        FirstOf(children) ==
            IF children = <<>> THEN <<>>
            ELSE IF find_root_frame_AnyType(Head(children)) # <<>>
            THEN find_root_frame_AnyType(Head(children))
            ELSE FirstOf(Tail(children))
    IN  IF node.absoluteBoundingBox # <<>>
        THEN node.absoluteBoundingBox
        ELSE FirstOf(node.children)

\* the bounding box of the first FRAME or CANVAS node that has one, in the
\* order of the walk, as <<box>>; <<>> is None
RECURSIVE find_root_frame(_)
find_root_frame(node) ==
    LET RECURSIVE FirstOf(_)
        FirstOf(children) ==
            IF children = <<>> THEN <<>>
            ELSE IF find_root_frame(Head(children)) # <<>>
            THEN find_root_frame(Head(children))
            ELSE FirstOf(Tail(children))
    IN  IF node.absoluteBoundingBox # <<>> /\ node.type \in {<<"FRAME">>, <<"CANVAS">>}
        THEN node.absoluteBoundingBox
        ELSE FirstOf(node.children)

\* the root of either envelope, or the exception raised
LayoutRoot(data) ==
    IF data.document # <<>> THEN [root |-> data.document[1]]
    ELSE IF data.nodes # <<>>
    THEN IF data.nodes[1] = <<>> THEN Raised("IndexError")
         ELSE IF Head(data.nodes[1]).document = <<>> THEN Raised("KeyError")
         ELSE [root |-> Head(data.nodes[1]).document[1]]
    ELSE Raised("ValueError")

\* v / side if side else 0.0
Normalized(v, side) == IF side # 0 THEN (v * NormUnit) \div side ELSE 0

NormalizeResult(r, frame) ==
    [r EXCEPT !.x      = Normalized(r.x - frame.x, frame.width),
              !.y      = Normalized(r.y - frame.y, frame.height),
              !.width  = Normalized(r.width, frame.width),
              !.height = Normalized(r.height, frame.height)]

NormalizeResults(results, frame) ==
    SeqOf(Len(results), LAMBDA k : NormalizeResult(results[k], frame))

BoxesOfRoot(root, frame) ==
    IF frame = <<>> THEN Raised("ValueError")
    ELSE [boxes |-> NormalizeResults(extract_boxes_from_node(root, 0), frame[1]),
          frame |-> frame[1]]

\* (results, frame), or the exception raised
load_boxes_from_json(data) ==
    IF HasRaised(LayoutRoot(data)) THEN LayoutRoot(data)
    ELSE BoxesOfRoot(LayoutRoot(data).root, find_root_frame(LayoutRoot(data).root))

\* compute_layout_iou on two documents
LayoutOfLoaded(gt, gen) ==
    IF HasRaised(gt) THEN gt
    ELSE IF HasRaised(gen) THEN gen
    ELSE compute_layout_iou(gt.boxes, gen.boxes)

layout_iou_of_json(gt_json, gen_json) ==
    LayoutOfLoaded(load_boxes_from_json(gt_json), load_boxes_from_json(gen_json))

\* the body of _layout_iou after the call of compute_layout_iou; precision and
\* recall arrive rounded and counted in 1/10000, as do the values returned
LayoutIouOfResult(res) ==
    LET precision == res.precision
        recall    == res.recall
    IN  IF res.num_gt = 0 THEN Raised("ZeroDivisionError")
        ELSE [layout_overlap |-> IF precision + recall > 0
                                 THEN RoundHalfEven(2 * precision * recall, precision + recall)
                                 ELSE 0,
              element_count_ratio |-> Min(10000, Round4(res.num_gen, res.num_gt)),
              num_matched |-> res.num_matched,
              num_gt      |-> res.num_gt,
              num_gen     |-> res.num_gen,
              precision   |-> precision,
              recall      |-> recall]

_layout_iou(gt_json, gen_json) ==
    Eager(layout_iou_of_json(gt_json, gen_json),
          LAMBDA res : IF HasRaised(res) THEN res ELSE LayoutIouOfResult(res))

\* compute_alignment_score of group_alignment.py on two documents
AlignmentOfLoaded(gt, gen, has_gen, t) ==
    IF HasRaised(gt) THEN gt
    ELSE IF has_gen /\ HasRaised(gen) THEN gen
    ELSE compute_alignment_score(gt.boxes, IF has_gen THEN gen.boxes ELSE <<>>, has_gen, t)

alignment_score_of_json(gt_json, gen_json, has_gen, t) ==
    AlignmentOfLoaded(load_boxes_from_json(gt_json),
                      IF has_gen THEN load_boxes_from_json(gen_json) ELSE NoResult,
                      has_gen, t)

\* find_root_frame of block_matcher.py: the node chosen as root frame, as
\* <<node>>; <<>> is None.  The first FRAME child of a CANVAS is taken whether
\* or not it has a bounding box.
RECURSIVE block_find_root_frame(_)
block_find_root_frame(node) ==
    LET frames == SelectSeq(node.children, LAMBDA child : child.type = <<"FRAME">>)
        RECURSIVE FirstOf(_)
        FirstOf(children) ==
            IF children = <<>> THEN <<>>
            ELSE IF block_find_root_frame(Head(children)) # <<>>
            THEN block_find_root_frame(Head(children))
            ELSE FirstOf(Tail(children))
    IN  IF node.type = <<"CANVAS">> /\ frames # <<>> THEN <<Head(frames)>>
        ELSE IF node.absoluteBoundingBox # <<>> /\ node.type = <<"FRAME">> THEN <<node>>
        ELSE FirstOf(node.children)

\* the root frame node after the fallback to the root itself
BlockRootFrame(root) ==
    LET found == block_find_root_frame(root)
    IN  IF found = <<>> \/ found[1].absoluteBoundingBox = <<>>
        THEN IF root.absoluteBoundingBox # <<>> THEN [node |-> root]
             ELSE Raised("ValueError")
        ELSE [node |-> found[1]]

\* all_nodes: an invisible node returns before it is appended and before its
\* children are visited; opacity is not looked at
RECURSIVE extract_nodes_recursive(_)
RECURSIVE ExtractNodesOfChildren(_)
ExtractNodesOfChildren(children) ==
    IF children = <<>> THEN <<>>
    ELSE extract_nodes_recursive(Head(children)) \o ExtractNodesOfChildren(Tail(children))

extract_nodes_recursive(node) ==
    IF node.visible = <<FALSE>> THEN <<>>
    ELSE (IF node.absoluteBoundingBox # <<>> THEN <<node>> ELSE <<>>)
         \o ExtractNodesOfChildren(node.children)

\* v / side if side > 0 else 0
BlockNormalized(v, side) == IF side > 0 THEN (v * NormUnit) \div side ELSE 0

BlockBox(node, frame_bbox) ==
    [name   |-> Get(node.name, ""),
     type   |-> Get(node.type, ""),
     x      |-> BlockNormalized(node.absoluteBoundingBox[1].x - frame_bbox.x, frame_bbox.width),
     y      |-> BlockNormalized(node.absoluteBoundingBox[1].y - frame_bbox.y, frame_bbox.height),
     width  |-> BlockNormalized(node.absoluteBoundingBox[1].width, frame_bbox.width),
     height |-> BlockNormalized(node.absoluteBoundingBox[1].height, frame_bbox.height)]

BlockBoxesOfFrame(root_frame_node) ==
    IF HasRaised(root_frame_node) THEN root_frame_node
    ELSE [boxes |-> SeqOf(Len(extract_nodes_recursive(root_frame_node.node)),
                          LAMBDA k : BlockBox(extract_nodes_recursive(root_frame_node.node)[k],
                                              root_frame_node.node.absoluteBoundingBox[1])),
          frame |-> root_frame_node.node.absoluteBoundingBox[1]]

\* (extracted_boxes, frame_bbox), or the exception raised
load_and_normalize_boxes(data) ==
    IF HasRaised(LayoutRoot(data)) THEN LayoutRoot(data)
    ELSE BlockBoxesOfFrame(BlockRootFrame(LayoutRoot(data).root))

\* a document in the units of the grid model (1e-5 pixel)
GridUnitsPerPixel == 100000

RECURSIVE InGridUnits(_)
InGridUnits(node) ==
    [node EXCEPT
       !.absoluteBoundingBox =
           IF @ = <<>> THEN <<>>
           ELSE << Box(@[1].x * GridUnitsPerPixel, @[1].y * GridUnitsPerPixel,
                       @[1].width * GridUnitsPerPixel, @[1].height * GridUnitsPerPixel) >>,
       !.children = SeqOf(Len(@), LAMBDA k : InGridUnits(node.children[k]))]

DocumentInGridUnits(data) ==
    [document |-> IF data.document = <<>> THEN <<>> ELSE <<InGridUnits(data.document[1])>>,
     nodes    |-> IF data.nodes = <<>> THEN <<>>
                  ELSE << SeqOf(Len(data.nodes[1]), LAMBDA k :
                             [document |-> IF data.nodes[1][k].document = <<>> THEN <<>>
                                           ELSE <<InGridUnits(data.nodes[1][k].document[1])>>]) >>]

-----------------------------------------------------------------------------
(* SpecFlatten: the calls that start from a document, on small documents.  *)

\* most children drawn below a root
MaxNested == 2

\* visibility and opacity of the nodes drawn: the defaults, invisible, fully
\* transparent, opacity of exactly 0.01, and half transparent
NodeStyles ==
    { << <<>>, <<>> >>, << <<FALSE>>, <<>> >>, << <<>>, <<0>> >>,
      << <<>>, <<OPACITY_EPSILON>> >>, << <<TRUE>>, <<50>> >> }

DefaultStyle == << <<>>, <<>> >>

Styled(name, type, style, box, children) ==
    Node(<<name>>, <<type>>, style[1], style[2], box, children)

\* the elements drawn, named apart: a and b overlap, d lies below a, and c
\* lies inside a
ElementNames == <<"a", "b", "d">>

ElementBox(name) ==
    IF name = "a" THEN Box(0, 0, 50, 50)
    ELSE IF name = "b" THEN Box(25, 0, 50, 50)
    ELSE IF name = "d" THEN Box(0, 50, 50, 50)
    ELSE Box(10, 10, 20, 20)

Element(name, style, children) ==
    Styled(name, "RECTANGLE", style, <<ElementBox(name)>>, children)

\* no child; up to MaxNested elements in every style; one element in every
\* style with a text below it
NestedChildren ==
    UNION { { SeqOf(n, LAMBDA k : Element(ElementNames[k], styles[k], <<>>)) :
                styles \in [1..n -> NodeStyles] } : n \in 0..Min(MaxNested, Len(ElementNames)) }
    \cup { << Element("a", s, << Styled("c", "TEXT", DefaultStyle, <<ElementBox("c")>>, <<>>) >>) >> :
             s \in NodeStyles }

\* the roots drawn: a frame or a group; with a box of 100 by 100 pixels, with
\* a box of no width, or with no box; shown or invisible
FlatRoots(children) ==
    { Styled("root", type, style, box, children) :
        type \in {"FRAME", "GROUP"},
        style \in {DefaultStyle, << <<FALSE>>, <<>> >>},
        box \in { <<Box(0, 0, 100, 100)>>, <<Box(0, 0, 0, 100)>>, <<>> } }

\* every root in the canvas envelope; a frame below a canvas without a box, in
\* the API envelope; a frame below a canvas that has a box; an API envelope
\* with no entry; a document with neither key
FlatDocuments ==
    { CanvasDocument(r) : r \in UNION { FlatRoots(c) : c \in NestedChildren } }
    \cup { ApiDocument(<< Styled("page", "CANVAS", DefaultStyle, <<>>,
                                 << Styled("root", "FRAME", DefaultStyle, <<Box(0, 0, 100, 100)>>,
                                           << Element("a", DefaultStyle, <<>>) >>) >>) >>),
           CanvasDocument(Styled("page", "CANVAS", DefaultStyle, <<Box(0, 0, 200, 200)>>,
                                 << Styled("root", "FRAME", DefaultStyle, <<Box(0, 0, 100, 100)>>,
                                           << Element("a", DefaultStyle, <<>>) >>) >>)),
           ApiDocument(<<>>),
           NoDocument }

\* the candidates drawn: two elements in a frame, a frame with no element
\* shown, an element in a frame of no width, and a document with neither key
GenFlatDocuments ==
    { CanvasDocument(Styled("root", "FRAME", DefaultStyle, <<Box(0, 0, 100, 100)>>,
                            << Element("a", DefaultStyle, <<>>), Element("b", DefaultStyle, <<>>) >>)),
      CanvasDocument(Styled("root", "FRAME", << <<FALSE>>, <<>> >>, <<Box(0, 0, 100, 100)>>, <<>>)),
      CanvasDocument(Styled("root", "FRAME", DefaultStyle, <<Box(0, 0, 0, 100)>>,
                            << Element("a", DefaultStyle, <<>>) >>)),
      NoDocument }

InitFlatten ==
    /\ gt_boxes = <<>>
    /\ gen_boxes = <<>>
    /\ tol = TOLERANCE
    /\ gt_doc \in FlatDocuments
    /\ gen_doc \in GenFlatDocuments
    /\ files = NoFiles
    /\ HarnessIdle
    /\ calls = NoCalls
    /\ pc = "input"
    /\ call = "none"
    /\ ret = NoResult

LoadBoxesFromJson ==
    /\ pc = "input"
    /\ pc' = "done"
    /\ call' = "load_boxes_from_json"
    /\ ret' = load_boxes_from_json(gt_doc)
    /\ UNCHANGED <<inputs, files, calls, harness>>

LoadAndNormalizeBoxes ==
    /\ pc = "input"
    /\ pc' = "done"
    /\ call' = "load_and_normalize_boxes"
    /\ ret' = load_and_normalize_boxes(gt_doc)
    /\ UNCHANGED <<inputs, files, calls, harness>>

LoadFigmaBoxes ==
    /\ pc = "input"
    /\ pc' = "done"
    /\ call' = "load_figma_boxes"
    /\ ret' = load_figma_boxes(gt_doc)
    /\ UNCHANGED <<inputs, files, calls, harness>>

LayoutIou ==
    /\ pc = "input"
    /\ pc' = "done"
    /\ call' = "_layout_iou"
    /\ ret' = _layout_iou(gt_doc, gen_doc)
    /\ UNCHANGED <<inputs, files, calls, harness>>

AlignmentScoreOfJson ==
    /\ pc = "input"
    /\ pc' = "done"
    /\ call' = "alignment_score_of_json"
    /\ ret' = alignment_score_of_json(gt_doc, gen_doc, TRUE, tol)
    /\ UNCHANGED <<inputs, files, calls, harness>>

GridAlignmentOfJson ==
    /\ pc = "input"
    /\ pc' = "done"
    /\ call' = "grid_compute_alignment_score"
    /\ \E gt_kmeans \in KMeansOutcomes(load_figma_boxes(DocumentInGridUnits(gt_doc))) :
       \E gen_kmeans \in KMeansOutcomes(load_figma_boxes(DocumentInGridUnits(gen_doc))) :
          ret' = grid_compute_alignment_score(DocumentInGridUnits(gt_doc),
                                              DocumentInGridUnits(gen_doc), TRUE,
                                              gt_kmeans, gen_kmeans)
    /\ UNCHANGED <<inputs, files, calls, harness>>

TreeSimilarityOfJson ==
    /\ pc = "input"
    /\ pc' = "done"
    /\ call' = "compute_tree_similarity"
    /\ ret' = compute_tree_similarity(gt_doc, gen_doc, FALSE)
    /\ UNCHANGED <<inputs, files, calls, harness>>

NextFlatten ==
    \/ LoadBoxesFromJson
    \/ LoadAndNormalizeBoxes
    \/ LoadFigmaBoxes
    \/ LayoutIou
    \/ AlignmentScoreOfJson
    \/ GridAlignmentOfJson
    \/ TreeSimilarityOfJson

SpecFlatten == InitFlatten /\ [][NextFlatten]_vars

-----------------------------------------------------------------------------
(* Properties of the calls that start from a document (SpecFlatten).       *)

FlatReturned(name) == pc = "done" /\ call = name

\* the rectangles and the frame the layout flattener gives for a document
LoadedGt == load_boxes_from_json(gt_doc)

LoadedGen == load_boxes_from_json(gen_doc)

ZeroSizeFrame(loaded) == loaded.frame.width = 0 \/ loaded.frame.height = 0

\* both documents have a root frame, and an element set is empty or a root
\* frame has no width or no height
DegenerateLayoutInput ==
    /\ ~HasRaised(LoadedGt) /\ ~HasRaised(LoadedGen)
    /\ \/ LoadedGt.boxes = <<>> \/ LoadedGen.boxes = <<>>
       \/ ZeroSizeFrame(LoadedGt) \/ ZeroSizeFrame(LoadedGen)

\* both documents have a root, and the grid flattener finds no element in one
DegenerateGridInput ==
    /\ ~HasRaised(load_figma_boxes(gt_doc)) /\ ~HasRaised(load_figma_boxes(gen_doc))
    /\ \/ load_figma_boxes(gt_doc).records = <<>>
       \/ load_figma_boxes(gen_doc).records = <<>>

LayoutNeverRaises ==
    FlatReturned("_layout_iou") /\ DegenerateLayoutInput => ~HasRaised(ret)

GroupAlignmentNeverRaises ==
    FlatReturned("alignment_score_of_json") /\ DegenerateLayoutInput => ~HasRaised(ret)

GridAlignmentNeverRaises ==
    FlatReturned("grid_compute_alignment_score") /\ DegenerateGridInput => ~HasRaised(ret)

\* C18: on a degenerate input (an empty element set on either side, a root
\* frame of no width or no height) the layout_iou aggregator, alignment-group
\* comparison and grid alignment return a result and raise nothing.
C18_DegenerateNeverRaises ==
    LayoutNeverRaises /\ GroupAlignmentNeverRaises /\ GridAlignmentNeverRaises

\* neither "document" nor "nodes" is a key of the document
NoEnvelope(doc) == doc.document = <<>> /\ doc.nodes = <<>>

\* the document has a root: its "document", or the "document" of its first entry
HasRoot(doc) ==
    \/ doc.document # <<>>
    \/ doc.nodes # <<>> /\ doc.nodes[1] # <<>> /\ doc.nodes[1][1].document # <<>>

DocumentRoot(doc) ==
    IF doc.document # <<>> THEN doc.document[1] ELSE doc.nodes[1][1].document[1]

\* the positions of the root containers with geometry: the FRAME and CANVAS
\* nodes that have a bounding box
RootContainers(root) ==
    { a \in Addresses(root) :
        /\ NodeAt(root, a).type \in {<<"FRAME">>, <<"CANVAS">>}
        /\ NodeAt(root, a).absoluteBoundingBox # <<>> }

NoRootContainer(doc) == HasRoot(doc) /\ RootContainers(DocumentRoot(doc)) = {}

\* the exception the loaders raise for a structure they cannot use
StructureError == Raised("ValueError")

FlattenerRaises ==
    FlatReturned("load_boxes_from_json") /\ (NoEnvelope(gt_doc) \/ NoRootContainer(gt_doc))
        => ret = StructureError

\* the comparator loads the ground truth first: a ground truth with a root it
\* cannot reach raises before the candidate is looked at
ComparatorRaises ==
    /\ FlatReturned("compute_tree_similarity") /\ NoEnvelope(gt_doc) => ret = StructureError
    /\ FlatReturned("compute_tree_similarity") /\ HasRoot(gt_doc) /\ NoEnvelope(gen_doc)
          => ret = StructureError

Flatteners == {"load_boxes_from_json", "load_and_normalize_boxes", "load_figma_boxes"}

FlattenerReturned(name) == FlatReturned(name) /\ ~HasRaised(ret)

EmittedBoxes == IF call = "load_figma_boxes" THEN ret.records ELSE ret.boxes

\* the nodes of the ground truth are named apart, so a rectangle is traced to
\* its node by its name
EmittedNames == { EmittedBoxes[k].name : k \in DOMAIN EmittedBoxes }

GtNodes ==
    IF HasRoot(gt_doc)
    THEN { NodeAt(DocumentRoot(gt_doc), a) : a \in Addresses(DocumentRoot(gt_doc)) }
    ELSE {}

\* not invisible, and of an opacity that is not below the epsilon
IsShown(node) ==
    Get(node.visible, TRUE) /\ Get(node.opacity, DEFAULT_OPACITY) >= OPACITY_EPSILON

NoHiddenNodeEmitted(name) ==
    FlattenerReturned(name) =>
        \A node \in GtNodes : ~IsShown(node) => node.name[1] \notin EmittedNames

EveryShownNodeEmitted(name) ==
    FlattenerReturned(name) =>
        \A node \in GtNodes :
            IsShown(node) /\ node.absoluteBoundingBox # <<>> => node.name[1] \in EmittedNames

\* C20: a flattener emits no rectangle of a node that is invisible or whose
\* opacity is below 0.01, and emits every node with geometry that is visible
\* and has an opacity of at least 0.01.
C20_ShownNodesEmitted ==
    \A name \in Flatteners : NoHiddenNodeEmitted(name) /\ EveryShownNodeEmitted(name)

\* position a comes before position b in the pre-order walk of a tree
RECURSIVE PreOrderBefore(_, _)
PreOrderBefore(a, b) ==
    IF a = <<>> THEN b # <<>>
    ELSE IF b = <<>> THEN FALSE
    ELSE IF Head(a) # Head(b) THEN Head(a) < Head(b)
    ELSE PreOrderBefore(Tail(a), Tail(b))

\* the rectangle of the first FRAME or CANVAS container of the walk
FirstRootContainer(root) ==
    LET first == CHOOSE a \in RootContainers(root) :
                     \A b \in RootContainers(root) \ {a} : PreOrderBefore(a, b)
    IN  NodeAt(root, first).absoluteBoundingBox[1]

\* the rectangles of the tree, and those of the largest area among them
RectanglesOf(root) ==
    { NodeAt(root, a).absoluteBoundingBox[1] :
        a \in { b \in Addresses(root) : NodeAt(root, b).absoluteBoundingBox # <<>> } }

LargestRectangles(root) ==
    { r \in RectanglesOf(root) :
        \A q \in RectanglesOf(root) : q.width * q.height <= r.width * r.height }

\* the root frame is the first container, or else a largest rectangle
IsExpectedRootFrame(result, root) ==
    IF RootContainers(root) # {}
    THEN ~HasRaised(result) /\ result.frame = FirstRootContainer(root)
    ELSE RectanglesOf(root) # {}
            => ~HasRaised(result) /\ result.frame \in LargestRectangles(root)

RootFrameOf(name) ==
    FlatReturned(name) /\ HasRoot(gt_doc) => IsExpectedRootFrame(ret, DocumentRoot(gt_doc))

\* C21: the root frame used for normalization is the rectangle of the first
\* FRAME or CANVAS container in the pre-order walk of the tree, and the
\* rectangle of largest area when the tree has no such container.
C21_RootFrameChosen ==
    RootFrameOf("load_boxes_from_json") /\ RootFrameOf("load_and_normalize_boxes")

-----------------------------------------------------------------------------
(* Properties of the rows of the grid tables (SpecGridScore).              *)

\* the mean absolute deviation of a group under one rule, from the rectangles
RuleDeviation(rule, boxes, axis) ==
    IF rule \in {"left", "top"}
    THEN Ratio(SumOfDistances(LowEdges(boxes, axis), MinOf(Range(LowEdges(boxes, axis))), 1),
               Len(boxes))
    ELSE IF rule = "center"
    THEN Ratio(SumOfDistances(TwiceCenters(boxes, axis),
                              TwiceMedian(TwiceCenters(boxes, axis)), 2),
               4 * Len(boxes))
    ELSE Ratio(SumOfDistances(HighEdges(boxes, axis), MaxOf(Range(HighEdges(boxes, axis))), 1),
               Len(boxes))

RulesOf(axis) == IF axis = "x" THEN {"left", "center", "right"} ELSE {"top", "center", "bottom"}

\* round(error, 2), counted in 1/100 pixel, of an error counted in 1e-5 pixel
RoundedError(error) == RoundHalfEven(error[1], error[2] * 1000)

RowHasLeastRule(g) ==
    /\ RowOf(g).alignment_type \in RulesOf(ScoreAxis)
    /\ \A rule \in RulesOf(ScoreAxis) :
          ~RatioLess(RuleDeviation(rule, MembersOf(g), ScoreAxis),
                     RuleDeviation(RowOf(g).alignment_type, MembersOf(g), ScoreAxis))
    /\ RowOf(g).alignment_error
          = RoundedError(RuleDeviation(RowOf(g).alignment_type, MembersOf(g), ScoreAxis))

\* C22: the alignment_type of every scored group is a rule of its axis whose
\* mean absolute deviation (from the least low edge, the median center or the
\* greatest high edge) is least among the three, and alignment_error is that
\* least deviation, rounded to 0.01.
C22_LeastErrorRule ==
    GridScoreReturned => \A g \in {1, 2} : HasRow(g) => RowHasLeastRule(g)

\* C22 witness: a scored group whose rule is not the first of its axis and
\* whose three deviations are not all the same, the least one above zero
C22_Witness ==
    /\ GridScoreReturned
    /\ \E g \in {1, 2} :
          /\ HasRow(g)
          /\ RowOf(g).alignment_type = "center"
          /\ RowOf(g).alignment_error > 0
          /\ \E rule \in RulesOf(ScoreAxis) :
                RatioLess(RuleDeviation("center", MembersOf(g), ScoreAxis),
                          RuleDeviation(rule, MembersOf(g), ScoreAxis))

-----------------------------------------------------------------------------
(* Properties of the local groups (SpecGrid).                              *)

\* the positions of the elements of the ground truth: the nodes with a
\* bounding box; the documents drawn with a root have no decorative node
\* below it and no depth above MAX_DEPTH
ElementPositions ==
    IF gt_doc.document # <<>> /\ ~is_decorative(Get(gt_doc.document[1].name, ""))
    THEN { a \in Addresses(gt_doc.document[1]) :
             NodeAt(gt_doc.document[1], a).absoluteBoundingBox # <<>> }
    ELSE {}

\* the position of the parent node; the root has none
ParentPosition(a) == SubSeq(a, 1, Len(a) - 1)

\* the elements of the same depth and the same parent node
SiblingsOf(a) ==
    { b \in ElementPositions : Len(b) = Len(a) /\ ParentPosition(b) = ParentPosition(a) }

BoxesAt(positions) ==
    LET RECURSIVE List(_)
        List(ps) == IF ps = {} THEN <<>>
                    ELSE LET p == CHOOSE q \in ps : TRUE
                         IN  <<NodeAt(gt_doc.document[1], p).absoluteBoundingBox[1]>>
                             \o List(ps \ {p})
    IN  List(positions)

\* the normalization guard of a group along an axis
PassesGuard(boxes, axis) ==
    /\ TwiceMedian(Sizes(boxes, axis)) + 2 * NORM_EPSILON > 2 * MIN_NORM_BASE
    /\ Len(boxes) <= MAX_GROUP_SIZE

\* the row of a local table that scores the siblings of the element at a
IsLocalRowOf(row, a) ==
    /\ row.depth = Len(a)
    /\ a # <<>>
    /\ <<row.parent>> = NodeAt(gt_doc.document[1], ParentPosition(a)).name
    /\ row.num_elements = Cardinality(SiblingsOf(a))

LocalGroupsOf(table, axis) ==
    \A a \in ElementPositions :
        PassesGuard(BoxesAt(SiblingsOf(a)), axis)
            => Cardinality({k \in DOMAIN table : IsLocalRowOf(table[k], a)}) = 1

\* C23: the local tables score together exactly the elements of the same
\* depth and the same parent node, and every element, the root included, is
\* in exactly one scored group (when its group passes the normalization guard).
C23_LocalGroupsBySiblings ==
    GridReturned /\ ~HasRaised(ret) =>
        /\ LocalGroupsOf(ret.gt_detail.local_col_alignment, "x")
        /\ LocalGroupsOf(ret.gt_detail.local_row_alignment, "y")

-----------------------------------------------------------------------------
(* Properties of the path strings (SpecTree).                              *)

PathsReturned ==
    /\ pc = "done"
    /\ call \in {"_extract_paths", "_extract_paths_by_type"}
    /\ ~HasRaised(ret)

PathsByTypeOnly == call = "_extract_paths_by_type"

\* C24: the result of a tree is the set of the path strings of its nodes,
\* where the path of the root is "/<segment>", the path of any other node is
\* the path of its parent followed by "/<segment>", and the segment is the type
\* alone in type-only mode and the normalized name, ":" and the type in full
\* mode; nodes with the same path string give one element.
C24_PathStrings ==
    PathsReturned =>
        /\ ret.paths = { PathTo(RootOf(gt_doc), a, Len(a), PathsByTypeOnly) :
                           a \in Addresses(RootOf(gt_doc)) }
        /\ Cardinality(ret.paths) <= Cardinality(Addresses(RootOf(gt_doc)))

\* C24 witness: in full mode, a root written " Frame" with two children of the
\* same name and type, which give one path string
C24_Witness ==
    /\ PathsReturned
    /\ ~PathsByTypeOnly
    /\ RootOf(gt_doc).name = <<" Frame">>
    /\ Len(RootOf(gt_doc).children) = 2
    /\ RootOf(gt_doc).children[1] = RootOf(gt_doc).children[2]
    /\ Cardinality(ret.paths) = 2

-----------------------------------------------------------------------------
(* Counts of compute_layout_iou (Spec).                                    *)

\* C25: in every result of compute_layout_iou the matched and the unmatched
\* rectangles of each side add up to the rectangles of that side: every GT
\* and every GEN rectangle is counted once, as matched or as unmatched.
C25_CountsAddUp ==
    Returned("compute_layout_iou") =>
        /\ ret.num_gt = Len(gt_boxes)
        /\ ret.num_gen = Len(gen_boxes)
        /\ ret.num_matched + ret.num_unmatched_gt = ret.num_gt
        /\ ret.num_matched + ret.num_unmatched_gen = ret.num_gen

\* C25 witness: a result with two matched rectangles and one GT rectangle
\* left unmatched
C25_Witness ==
    /\ Returned("compute_layout_iou")
    /\ ret.num_matched = 2
    /\ ret.num_unmatched_gt = 1
    /\ ret.num_unmatched_gen = 0

-----------------------------------------------------------------------------
(* Groups of one element (SpecGridScore).                                  *)

FirstRule(axis) == IF axis = "x" THEN "left" ELSE "top"

IsSingleton(g) == Len(MembersOf(g)) = 1

\* C26: a cluster or a local group of one element that passes the
\* normalization guard is scored, with alignment_error 0, score 1.0 and the
\* first rule of its axis, wherever the element lies.
C26_SingletonGroup ==
    GridScoreReturned =>
        \A g \in {1, 2} :
            IsSingleton(g) /\ PassesGuard(MembersOf(g), ScoreAxis) =>
                /\ HasRow(g)
                /\ RowOf(g).num_elements = 1
                /\ RowOf(g).alignment_type = FirstRule(ScoreAxis)
                /\ RowOf(g).alignment_error = 0
                /\ RowOf(g).normalized_error = 0
                /\ RowOf(g).score = 10000

\* C26 witness: a scored group of one element that does not lie at the origin
C26_Witness ==
    /\ GridScoreReturned
    /\ \E g \in {1, 2} :
          /\ IsSingleton(g)
          /\ HasRow(g)
          /\ MembersOf(g)[1].x > 0
          /\ MembersOf(g)[1].y > 0

-----------------------------------------------------------------------------
(* Component similarity: compute_component_similarity_metrics, with the    *)
(* text matcher hungarian_text_position_matching.  The rectangle lists are *)
(* those load_and_normalize_boxes returns: each rectangle carries the type *)
(* of its node and its characters, None ("<<>>") when the node has none.   *)
(* Coordinates are counted in 1/NormUnit of the frame.                     *)

\* longest rectangle list drawn for either side under SpecComponent
MaxComponents == 2

ComponentBox(type, characters, box) ==
    [type |-> type, characters |-> characters,
     x |-> box.x, y |-> box.y, width |-> box.width, height |-> box.height]

SampleComponents ==
    { ComponentBox("TEXT", <<"Ok">>, Box(0, 0, 40, 20)),
      ComponentBox("TEXT", <<"No ">>, Box(50, 50, 40, 20)),
      ComponentBox("TEXT", <<" ">>, Box(0, 0, 40, 30)),
      ComponentBox("TEXT", <<>>, Box(50, 50, 40, 20)),
      ComponentBox("RECTANGLE", <<>>, Box(0, 0, 40, 20)),
      ComponentBox("RECTANGLE", <<>>, Box(50, 50, 40, 30)) }

\* set(text)
CharsOf(text) == {CharAt(text, i) : i \in 1..Len(text)}

\* a / b + c / d, halved
HalfSum(r, s) == Ratio(r[1] * s[2] + s[1] * r[2], 2 * r[2] * s[2])

_simple_text_similarity(text1, text2) ==
    LET len_ratio == Ratio(Min(Len(text1), Len(text2)), Max(Len(text1), Len(text2)))
        chars1 == CharsOf(lower(text1))
        chars2 == CharsOf(lower(text2))
        overlap == Cardinality(chars1 \cap chars2)
        union == Cardinality(chars1 \cup chars2)
        jaccard == IF union > 0 THEN Ratio(overlap, union) ELSE <<0, 1>>
    IN  IF text1 = "" \/ text2 = "" THEN <<0, 1>>
        ELSE IF lower(text1) = lower(text2) THEN <<1, 1>>
        ELSE IF chars1 = {} \/ chars2 = {} THEN len_ratio
        ELSE HalfSum(len_ratio, jaccard)

\* dist of _compute_position_similarity, which returns 1.0 - dist: the larger
\* of the two center distances, counted in 1/(2 * NormUnit)
CenterDistance(box1, box2) ==
    LET center_x1 == 2 * box1.x + box1.width
        center_y1 == 2 * box1.y + box1.height
        center_x2 == 2 * box2.x + box2.width
        center_y2 == 2 * box2.y + box2.height
    IN  Max(Abs(center_x1 - center_x2), Abs(center_y1 - center_y2))

\* box.get("characters", "").strip() of a rectangle that has characters
TextOf(box) == strip(box.characters[1])

TextSimMatrix(gt_text_boxes, gen_text_boxes) ==
    SeqOf(Len(gt_text_boxes), LAMBDA i :
        SeqOf(Len(gen_text_boxes), LAMBDA j :
            _simple_text_similarity(TextOf(gt_text_boxes[i]), TextOf(gen_text_boxes[j]))))

\* cost_matrix = alpha * (1 - text_sim_matrix) + beta * (1 - pos_sim_matrix)
\* with alpha = beta = 0.5, counted in 1/(4 * NormUnit * scale), where scale
\* is the common denominator of the text similarities
TextCostMatrix(gt_text_boxes, gen_text_boxes, text_sim_matrix, scale) ==
    SeqOf(Len(gt_text_boxes), LAMBDA i :
        SeqOf(Len(gen_text_boxes), LAMBDA j :
            2 * NormUnit * (scale - Scaled(text_sim_matrix[i][j], scale))
            + scale * CenterDistance(gt_text_boxes[i], gen_text_boxes[j])))

TextMatchesOfMatrix(gt_text_boxes, gen_text_boxes, text_sim_matrix) ==
    Eager(TextCostMatrix(gt_text_boxes, gen_text_boxes, text_sim_matrix,
                         CostScale(text_sim_matrix)),
          LAMBDA cost_matrix : BlockPairs(linear_sum_assignment(cost_matrix)))

\* the matches of hungarian_text_position_matching: every assigned pair
hungarian_text_position_matching(gt_text_boxes, gen_text_boxes) ==
    IF Len(gt_text_boxes) = 0 \/ Len(gen_text_boxes) = 0 THEN <<>>
    ELSE Eager(TextSimMatrix(gt_text_boxes, gen_text_boxes),
               LAMBDA text_sim_matrix :
                   TextMatchesOfMatrix(gt_text_boxes, gen_text_boxes, text_sim_matrix))

\* box.get("type") == "TEXT" and box.get("characters", "").strip(), for a
\* rectangle whose characters are not None
IsTextBox(box) ==
    /\ box.type = "TEXT"
    /\ box.characters # <<>>
    /\ TextOf(box) # ""

\* None.strip(): a TEXT rectangle whose characters are None
StripsNone(boxes) ==
    \E i \in DOMAIN boxes : boxes[i].type = "TEXT" /\ boxes[i].characters = <<>>

\* the indices i, ascending, with keep(i)
IndicesWhere(n, keep(_)) ==
    LET RECURSIVE Upto(_)
        Upto(k) == IF k = 0 THEN <<>>
                   ELSE IF keep(k) THEN Append(Upto(k - 1), k)
                   ELSE Upto(k - 1)
    IN  Upto(n)

TextIndices(boxes) == IndicesWhere(Len(boxes), LAMBDA i : IsTextBox(boxes[i]))

OtherIndices(boxes) == IndicesWhere(Len(boxes), LAMBDA i : ~IsTextBox(boxes[i]))

Select(boxes, indices) == SeqOf(Len(indices), LAMBDA k : boxes[indices[k]])


\* the local pairs appended as they are, not mapped back to the indices of
\* the whole lists
MapBack_Local(matches_local, gt_indices, gen_indices) == matches_local

\* [(gt_indices[i], gen_indices[j]) for i, j in matches_local]
MapBack(matches_local, gt_indices, gen_indices) ==
    SeqOf(Len(matches_local), LAMBDA k :
        [gt  |-> gt_indices[matches_local[k].gt],
         gen |-> gen_indices[matches_local[k].gen]])

\* all_matches: the text matches, then the matches of the other rectangles
AllMatches(gt, gen) ==
    LET gt_text_indices   == TextIndices(gt)
        gt_other_indices  == OtherIndices(gt)
        gen_text_indices  == TextIndices(gen)
        gen_other_indices == OtherIndices(gen)
        text_matches ==
            IF gt_text_indices # <<>> /\ gen_text_indices # <<>>
            THEN MapBack(hungarian_text_position_matching(
                             Select(gt, gt_text_indices), Select(gen, gen_text_indices)),
                         gt_text_indices, gen_text_indices)
            ELSE <<>>
        other_matches ==
            IF gt_other_indices # <<>> /\ gen_other_indices # <<>>
            THEN MapBack(hungarian_bbox_matching(
                             Select(gt, gt_other_indices), Select(gen, gen_other_indices),
                             DefaultIouThreshold),
                         gt_other_indices, gen_other_indices)
            ELSE <<>>
    IN  text_matches \o other_matches

\* block_match_score as returned, rounded to four places and counted in
\* 1/10000
BlockMatchScore(all_matches, gt) ==
    IF Len(gt) > 0 THEN Round4(Len(all_matches), Len(gt)) ELSE 0

\* compute_component_similarity_metrics from the two loaded lists on: the
\* combined match list and the block_match_score of the returned dict.  The
\* other scores of the dict are computed from the same lists afterwards.
compute_component_similarity_metrics(gt, gen) ==
    IF StripsNone(gt) \/ StripsNone(gen) THEN Raised("AttributeError")
    ELSE Eager(AllMatches(gt, gen),
               LAMBDA all_matches :
                   [all_matches |-> all_matches,
                    block_match_score |-> BlockMatchScore(all_matches, gt)])

InitComponent ==
    /\ gt_boxes \in ListsUpTo(SampleComponents, MaxComponents)
    /\ gen_boxes \in ListsUpTo(SampleComponents, MaxComponents)
    /\ tol = TOLERANCE
    /\ gt_doc = NoDocument
    /\ gen_doc = NoDocument
    /\ files = NoFiles
    /\ HarnessIdle
    /\ calls = NoCalls
    /\ pc = "input"
    /\ call = "none"
    /\ ret = NoResult

ComputeComponentSimilarityMetrics ==
    /\ pc = "input"
    /\ pc' = "done"
    /\ call' = "compute_component_similarity_metrics"
    /\ ret' = compute_component_similarity_metrics(gt_boxes, gen_boxes)
    /\ UNCHANGED <<inputs, files, calls, harness>>

NextComponent == ComputeComponentSimilarityMetrics

SpecComponent == InitComponent /\ [][NextComponent]_vars

ComponentReturned ==
    Returned("compute_component_similarity_metrics") /\ ~HasRaised(ret)

\* no index occurs in two pairs, on either side
Injective(matches) ==
    \A k, h \in DOMAIN matches :
        k # h => matches[k].gt # matches[h].gt /\ matches[k].gen # matches[h].gen

\* C27: the combined match list of compute_component_similarity_metrics pairs
\* indices of the two lists and uses no GT index and no GEN index twice; the
\* block_match_score is the rounded |matches| / |GT boxes|, between 0 and 1,
\* and 0.0 when GT has no rectangle.
C27_CombinedMatchesInjective ==
    ComponentReturned =>
        /\ \A k \in DOMAIN ret.all_matches :
              /\ ret.all_matches[k].gt \in DOMAIN gt_boxes
              /\ ret.all_matches[k].gen \in DOMAIN gen_boxes
        /\ Injective(ret.all_matches)
        /\ ret.block_match_score >= 0
        /\ ret.block_match_score <= 10000
        /\ Len(gt_boxes) > 0 =>
              ret.block_match_score = Round4(Len(ret.all_matches), Len(gt_boxes))
        /\ Len(gt_boxes) = 0 => ret.block_match_score = 0

\* C27 witness: a text match and a match of two other rectangles in one list
C27_Witness ==
    /\ ComponentReturned
    /\ Len(ret.all_matches) = 2
    /\ \E k \in DOMAIN ret.all_matches : IsTextBox(gt_boxes[ret.all_matches[k].gt])
    /\ \E k \in DOMAIN ret.all_matches : ~IsTextBox(gt_boxes[ret.all_matches[k].gt])

-----------------------------------------------------------------------------
(* The metric registry: evaluation/metrics/__init__.py.                    *)
(* dicts holds the dict objects of the program, by reference: dicts[1] is  *)
(* the module global _METRICS, the later ones are the dicts get_metrics    *)
(* has returned, which their callers may change.  history is the list of   *)
(* the registrations attempted so far, in order.                           *)

\* most registrations attempted in one run
MaxRegistrations == 3

\* most dicts handed out by get_metrics in one run
MaxCopies == 1

MetricNames == {"tool_usage", "component_similarity"}

\* the functions decorated in the metric modules
MetricFunctions ==
    {"_tool_usage_metric", "get_tool_usage_metrics", "compute_component_similarity_metrics"}

\* func.__module__
ModuleOf(func) ==
    CASE func = "_tool_usage_metric" -> "evaluation.metrics.tool_usage_metric"
      [] func = "get_tool_usage_metrics" -> "evaluation.metrics.tool_usage.tool_usage_metric"
      [] OTHER -> "evaluation.metrics.component_similarity.main_metric"

_METRICS == dicts[1]

\* d[key] = value
SetItem(d, key, value) ==
    [k \in DOMAIN d \cup {key} |-> IF k = key THEN value ELSE d[k]]

\* del d[key]
DelItem(d, key) == [k \in DOMAIN d \ {key} |-> d[k]]

\* a decorator that registers without looking whether the name is taken
register_metric_Overwrite(name, func, metrics, sources) ==
    [_METRICS |-> SetItem(metrics, name, func),
     _METRIC_SOURCES |-> SetItem(sources, name, ModuleOf(func)),
     func |-> func]

\* register_metric(name)(func): the two dicts afterwards and the function
\* returned, or the exception raised
register_metric(name, func, metrics, sources) ==
    IF name \in DOMAIN metrics THEN Raised("ValueError")
    ELSE [_METRICS |-> SetItem(metrics, name, func),
          _METRIC_SOURCES |-> SetItem(sources, name, ModuleOf(func)),
          func |-> func]

\* get_metrics(): _METRICS.copy(), a new dict object; the objects afterwards
\* and the reference returned
get_metrics(objects) ==
    [dicts |-> Append(objects, objects[1]), dict |-> Len(objects) + 1]

InitRegistry ==
    /\ gt_boxes = <<>> /\ gen_boxes = <<>> /\ tol = TOLERANCE
    /\ gt_doc = NoDocument /\ gen_doc = NoDocument
    /\ files = NoFiles
    /\ HarnessIdle
    /\ calls = NoCalls
    /\ pc = "input" /\ call = "none" /\ ret = NoResult

Registered(name, func, result) ==
    [name |-> name, func |-> func, raised |-> HasRaised(result)]

\* a metric module is imported and its decorator runs
RegisterMetric ==
    /\ Len(history) < MaxRegistrations
    /\ \E name \in MetricNames, func \in MetricFunctions :
          LET result == register_metric(name, func, _METRICS, _METRIC_SOURCES)
          IN  /\ dicts' = IF HasRaised(result) THEN dicts
                          ELSE [dicts EXCEPT ![1] = result._METRICS]
              /\ _METRIC_SOURCES' = IF HasRaised(result) THEN _METRIC_SOURCES
                                    ELSE result._METRIC_SOURCES
              /\ history' = Append(history, Registered(name, func, result))
              /\ ret' = IF HasRaised(result) THEN result ELSE [func |-> result.func]
    /\ pc' = "done"
    /\ call' = "register_metric"
    /\ UNCHANGED <<inputs, files, calls, results_dir, runners>>

GetMetrics ==
    /\ Len(dicts) < 1 + MaxCopies
    /\ dicts' = get_metrics(dicts).dicts
    /\ ret' = [dict |-> get_metrics(dicts).dict]
    /\ pc' = "done"
    /\ call' = "get_metrics"
    /\ UNCHANGED <<inputs, files, calls, _METRIC_SOURCES, history, results_dir, runners>>

\* the caller of get_metrics changes the dict it was given: it sets or
\* deletes a key
MutateReturned ==
    /\ call \in {"get_metrics", "mutate"}
    /\ \E name \in MetricNames :
          \/ \E func \in MetricFunctions :
                dicts' = [dicts EXCEPT ![ret.dict] = SetItem(@, name, func)]
          \/ /\ name \in DOMAIN dicts[ret.dict]
             /\ dicts' = [dicts EXCEPT ![ret.dict] = DelItem(@, name)]
    /\ pc' = "done"
    /\ call' = "mutate"
    /\ UNCHANGED <<inputs, files, calls, ret, _METRIC_SOURCES, history, results_dir, runners>>

NextRegistry ==
    \/ RegisterMetric
    \/ GetMetrics
    \/ MutateReturned

SpecRegistry == InitRegistry /\ [][NextRegistry]_vars

\* the names of the registrations attempted so far
AttemptedNames == {history[k].name : k \in DOMAIN history}

\* the first attempt to register the name
FirstAttempt(name) ==
    history[CHOOSE k \in DOMAIN history :
                /\ history[k].name = name
                /\ \A h \in 1..(k - 1) : history[h].name # name]

\* C28: after any sequence of registrations, get_metrics calls and changes
\* to the returned dicts, the registry holds exactly the names attempted,
\* each with the first function registered under it and that function's
\* module; an attempt raises ValueError exactly when its name was taken.
C28_FirstRegistrationKept ==
    /\ DOMAIN _METRICS = AttemptedNames
    /\ DOMAIN _METRIC_SOURCES = AttemptedNames
    /\ \A name \in AttemptedNames :
          /\ _METRICS[name] = FirstAttempt(name).func
          /\ _METRIC_SOURCES[name] = ModuleOf(FirstAttempt(name).func)
    /\ \A k \in DOMAIN history :
          history[k].raised <=> \E h \in 1..(k - 1) : history[h].name = history[k].name
    /\ Returned("register_metric") =>
          IF history[Len(history)].raised THEN ret = Raised("ValueError")
          ELSE ret = [func |-> history[Len(history)].func]

\* C28 witness: "tool_usage" was registered by _tool_usage_metric, the
\* registration of get_tool_usage_metrics under the same name raised, and a
\* dict returned by get_metrics was changed afterwards
C28_Witness ==
    /\ Len(history) >= 2
    /\ history[1] = [name |-> "tool_usage", func |-> "_tool_usage_metric", raised |-> FALSE]
    /\ history[2] = [name |-> "tool_usage", func |-> "get_tool_usage_metrics", raised |-> TRUE]
    /\ call = "mutate"
    /\ dicts[ret.dict] # _METRICS
    /\ "tool_usage" \in DOMAIN dicts[ret.dict]
    /\ dicts[ret.dict]["tool_usage"] = "get_tool_usage_metrics"

-----------------------------------------------------------------------------
(* The experiment runners in auto mode: src/experiments/base_runner.py     *)
(* (_acquire_lock, _release_lock, save_results) and the loop over the      *)
(* benchmark cases of run_replication_canvas_experiment.py and             *)
(* run_modification_experiment.py.  Every runner is a process of its own;  *)
(* all of them work in one results directory.  results_dir.locks are the   *)
(* <result_name>.lock files of the directory, results_dir.results its      *)
(* result directories.                                                     *)

\* processes started on the same benchmark
MaxRunners == 2

RunnerIds == 1..MaxRunners

\* the result names of the benchmark cases, in the order of the loop
ResultNames == <<"case-1-model-image_only", "case-2-model-image_only">>

\* os.open without O_EXCL: the file is opened whether it exists or not
_acquire_lock_NoExcl(dir, lock_name) ==
    [lock_path |-> <<lock_name>>,
     results_dir |-> [dir EXCEPT !.locks = @ \cup {lock_name}]]

\* _acquire_lock: os.open(lock_path, O_CREAT | O_EXCL | O_WRONLY) creates the
\* file or fails in one step; lock_path is None ("<<>>") on FileExistsError
_acquire_lock(dir, lock_name) ==
    IF lock_name \in dir.locks
    THEN [lock_path |-> <<>>, results_dir |-> dir]
    ELSE [lock_path |-> <<lock_name>>,
          results_dir |-> [dir EXCEPT !.locks = @ \cup {lock_name}]]

\* a release that leaves the file where it is
_release_lock_Keep(dir, lock_path) == dir

\* _release_lock: lock_path.unlink(missing_ok=True)
_release_lock(dir, lock_path) == [dir EXCEPT !.locks = @ \ {lock_path[1]}]

\* save_results: result_dir.mkdir(parents=True, exist_ok=True), then the files
save_results(dir, result_name) == [dir EXCEPT !.results = @ \cup {result_name}]

\* a runner entering its loop: item is the position in the loop, lock_path
\* the lock it holds, raised whether an exception is on its way out of the
\* try block, skipped the names it found locked by another process
Started ==
    [pc |-> "loop", item |-> 1, lock_path |-> <<>>, raised |-> FALSE, skipped |-> {}]

\* the results directory holds the results of earlier runs and no lock file
InitRunner ==
    /\ gt_boxes = <<>> /\ gen_boxes = <<>> /\ tol = TOLERANCE
    /\ gt_doc = NoDocument /\ gen_doc = NoDocument
    /\ files = NoFiles
    /\ calls = NoCalls
    /\ pc = "input" /\ call = "none" /\ ret = NoResult
    /\ dicts = <<EmptyDict>>
    /\ _METRIC_SOURCES = EmptyDict
    /\ history = <<>>
    /\ results_dir \in [locks : {{}}, results : SUBSET Range(ResultNames)]
    /\ runners = [p \in RunnerIds |-> Started]

registry == <<dicts, _METRIC_SOURCES, history>>

ResultName(p) == ResultNames[runners[p].item]

\* the loop is exhausted: run() returns
FinishRun(p) ==
    /\ runners[p].pc = "loop"
    /\ runners[p].item > Len(ResultNames)
    /\ runners' = [runners EXCEPT ![p].pc = "returned"]
    /\ UNCHANGED <<inputs, files, calls, pc, call, ret, registry, results_dir>>

\* lock_path = self._acquire_lock(result_name); `continue` when it is None.
\* An unexpected error of os.open is answered with None as well.
AcquireLock(p) ==
    /\ runners[p].pc = "loop"
    /\ runners[p].item <= Len(ResultNames)
    /\ \E unexpected \in BOOLEAN :
          LET acquired == IF unexpected
                          THEN [lock_path |-> <<>>, results_dir |-> results_dir]
                          ELSE _acquire_lock(results_dir, ResultName(p))
          IN  /\ results_dir' = acquired.results_dir
              /\ runners' =
                    IF acquired.lock_path = <<>>
                    THEN [runners EXCEPT ![p].item = @ + 1,
                                         ![p].skipped = @ \cup {ResultName(p)}]
                    ELSE [runners EXCEPT ![p].pc = "try",
                                         ![p].lock_path = acquired.lock_path]
    /\ UNCHANGED <<inputs, files, calls, pc, call, ret, registry>>

\* if result_dir.exists(): continue
CheckExists(p) ==
    /\ runners[p].pc = "try"
    /\ runners' = [runners EXCEPT ![p].pc =
                      IF ResultName(p) \in results_dir.results
                      THEN "finally" ELSE "run_variant"]
    /\ UNCHANGED <<inputs, files, calls, pc, call, ret, registry, results_dir>>

\* result = await self.run_variant(...) or self.run_modification(...): a
\* result, None after three failed requests, or an exception
RunVariant(p) ==
    /\ runners[p].pc = "run_variant"
    /\ \E outcome \in {"result", "None", "raised"} :
          runners' = [runners EXCEPT
                         ![p].pc = IF outcome = "result" THEN "save_results" ELSE "finally",
                         ![p].raised = (outcome = "raised")]
    /\ UNCHANGED <<inputs, files, calls, pc, call, ret, registry, results_dir>>

\* await self.save_results(result, result_name): the directory is made, and
\* the writing of the files may raise afterwards
SaveResults(p) ==
    /\ runners[p].pc = "save_results"
    /\ results_dir' = save_results(results_dir, ResultName(p))
    /\ \E raised \in BOOLEAN :
          runners' = [runners EXCEPT ![p].pc = "finally", ![p].raised = raised]
    /\ UNCHANGED <<inputs, files, calls, pc, call, ret, registry>>

\* finally: self._release_lock(lock_path); then `continue`, or the exception
\* leaves run()
Finally(p) ==
    /\ runners[p].pc = "finally"
    /\ results_dir' = _release_lock(results_dir, runners[p].lock_path)
    /\ runners' = IF runners[p].raised
                  THEN [runners EXCEPT ![p].pc = "failed", ![p].lock_path = <<>>]
                  ELSE [runners EXCEPT ![p].pc = "loop", ![p].lock_path = <<>>,
                                       ![p].item = @ + 1]
    /\ UNCHANGED <<inputs, files, calls, pc, call, ret, registry>>

NextRunner ==
    \/ \E p \in RunnerIds : FinishRun(p)
    \/ \E p \in RunnerIds : AcquireLock(p)
    \/ \E p \in RunnerIds : CheckExists(p)
    \/ \E p \in RunnerIds : RunVariant(p)
    \/ \E p \in RunnerIds : SaveResults(p)
    \/ \E p \in RunnerIds : Finally(p)

SpecRunner == InitRunner /\ [][NextRunner]_vars

\* the runner is between a successful _acquire_lock and its _release_lock
HoldsLock(p, name) == runners[p].lock_path = <<name>>

\* the runner is generating or saving the result
Working(p, name) ==
    /\ runners[p].pc \in {"run_variant", "save_results"}
    /\ ResultName(p) = name

\* C29: in auto mode, under any interleaving of the runners, at most one of
\* them holds the lock of a result name; a runner generates or saves a result
\* only while it holds that lock, so no two runners do it at once; and a
\* result whose directory exists is not generated again.
C29_OneHolderPerResult ==
    \A name \in Range(ResultNames) :
        /\ Cardinality({p \in RunnerIds : HoldsLock(p, name)}) <= 1
        /\ \A p \in RunnerIds :
              /\ HoldsLock(p, name) => name \in results_dir.locks
              /\ Working(p, name) => HoldsLock(p, name)
              /\ Working(p, name) => name \notin results_dir.results
        /\ \A p, q \in RunnerIds : Working(p, name) /\ Working(q, name) => p = q

\* C29 witness: one runner is generating a result that another runner found
\* locked and skipped
C29_Witness ==
    \E p, q \in RunnerIds :
        /\ p # q
        /\ runners[p].pc = "run_variant"
        /\ ResultName(p) \in runners[q].skipped
        /\ ResultName(p) \notin results_dir.results


\* the steps of one runner
RunnerStep(p) ==
    \/ FinishRun(p)
    \/ AcquireLock(p)
    \/ CheckExists(p)
    \/ RunVariant(p)
    \/ SaveResults(p)
    \/ Finally(p)

\* Every runner is an operating-system process of its own and keeps running:
\* a step it can take is taken, the answer of the generation request
\* included (the request has no timeout, so this supposes a server that
\* answers or fails).
SpecRunnerFair == SpecRunner /\ \A p \in RunnerIds : WF_vars(RunnerStep(p))

\* the runner is outside the guarded block
Outside(p) == runners[p].pc \in {"loop", "returned", "failed"}

====
